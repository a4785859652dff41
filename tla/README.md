# A TLA+ model of pick-a-meet

pick-a-meet lets the members of a company apply for small meetings. A FastAPI
process answers the requests, PostgreSQL keeps the data, and what must never go
wrong is registration: several hundred people press *apply* within the first
seconds after the window opens, while administrators and hosts go on editing
members and meetings. Around it stand the sessions of the people who do this, the
list they look at, which refreshes itself, and the room they wait in. The modules
in this directory model these parts, TLC checks them on small instances, and TLAPS
proves the main results for any number of members, meetings and requests.

Paths below are relative to the repository.

## 1. Inventory

| part | state | operations | hard behaviour |
|---|---|---|---|
| registration service (`app/services/registration_service.py`) | tables `registration`, `registration_history`; row locks | apply, cancel | concurrent transactions, lock waits, stale reads, rollbacks |
| policies (`registration_policy.py`, `part_registration_policy.py`) | none | denial reasons, part rule | order of the reasons, boundary of the counts |
| meeting administration (`app/routers/admin.py`, `host.py`, `meeting_service.py`) | `meeting`, `meeting_host` | create, edit by admin, edit by host | validates without locking, autoflush order, lost updates |
| member administration (`admin.py`, `member_service.py`) | `member` (part, module) | create, edit | validates without locking, merged updates, CHECK constraint |
| registration window (`registration_window.py`, `app/main.py`) | row `registration_schedule`, two module globals | load, change the opening time, change host visibility, is it open? | cache against database, order of updates, clock |
| authentication (`auth.py`, `session_service.py`, `app/policies/access.py`) | session cookie, CSRF token of open pages, `last_login_ip`, `login_history` | login, IP confirmation, logout, impersonate, return, unlock console | cookie written by overlapping answers, rights revoked meanwhile |
| public pages (`pages.py`, `meeting_view.py`) | none | list, fragment, waiting page | several snapshots in one page |
| list polling (`static/js/meeting_polling.js`) | sequence number, controller, submitting flag, pinned tooltip | poll, forced refresh, submit | answers out of order, a hung poll |
| waiting room (`static/js/waiting.js`) | deadline, timers | countdown, redirect, sync | truncation, late answer, retry |
| bootstrap script (`scripts/bootstrap_admin.py`) | the admin's row of `member` | insert or change it | bypasses the handlers' validation |
| other scripts, templates, styles | none shared | presentation | - |
| configuration, health, migrations, demo data, deployment | none at run time | - | - |

The parts meet in the database. Registration transactions and console edits
never call each other: they interact through rows, row locks and constraints.
The window is read by the service from a module global; the console writes it.
Browsers see all of this only by polling and re-submitting forms.

What makes each part correct:

* *registration*: capacity, part rule and one registration per member hold
  under any interleaving; what was checked still holds at commit; the history
  agrees with the registrations, and no success is told without them; every
  request is answered.
* *administration*: no sequence of edits leaves a CANCELLED meeting with
  applicants, an over-full meeting, a registered member who may not apply, an
  inactive host; an edit never undoes a column it did not change.
* *window*: the process works only with settings that were committed; the two
  settings do not disturb each other; nobody registers before the saved opening.
* *sessions*: behind every session is a person who has logged in; console and
  impersonation need the console password, and an edit needs an admin's rights
  when it is checked, which only another edit may take before it commits; a form
  is valid for the person it was shown to; only proved addresses are recorded.
* *views*: the list offers what the service would do.
* *polling, waiting room*: no older answer replaces a newer one, the filter, a
  form under way and an open tooltip are left alone, the list catches up;
  everyone who waits, and stays an active member, reaches it after the opening.

## 2. Modules

```
RegistrationPolicy          pure rules
   |
Tables                      tables, queries, what the README of the program promises
   |            \
Registration     Sequential          one action per handler, no overlap
   |                 |
Administration   MeetingView         what the list offers
   |                 |      \
   |             MCSequential SequentialProofs
RegistrationProperties --- Roster (INSTANCE: abstract specification)
   |            \
MCRegistration   RegistrationProofs --- RegistrationHistoryProofs
                         |                        |
                  PartRuleProofs -------- PromiseProofs

RegistrationWindow          schedule row, cached globals, process, clock
   |
WaitingRoom                 browsers that wait for the opening
   |            \
MCWaitingRoom    WaitingRoomProofs

Sessions                    cookies, forms, logins, console, impersonation
   |        \
MCSessions   SessionsProofs

MeetingList                 filters, fragment, script of the list
   |           \
MCMeetingList   MeetingListProofs
```

* **RegistrationPolicy**: the two denial functions and `part_registration_allowed`,
  the status and capacity checks of `meeting_service.py` and the role check that
  `member_service.py` and the table's CHECK share.
* **Tables**: `member`, `meeting`, `meeting_host` and `registration` as functions
  from primary key to row (a missing row is outside the domain); the queries
  (`Applicants`, `ActivePartMembers`, `DistributionMeetings`, `HostsOpenMeeting`)
  and the checks the handlers build from them; the promises about the tables.
* **Registration**: `apply_to_meeting` and `cancel_registration`, one action per
  statement whose result may still change before the next one, with the row
  locks they take, their commit and their rollback.
* **Administration**: the edits of console and host, PostgreSQL's deadlock
  detector, `Next` for the whole system, and the fairness.
* **Sequential**: the same handlers, each as one step, and the bootstrap script. It
  separates what the rules guarantee from what depends on interleaving.
* **MeetingView**: `load_public_meeting_views` and the buttons of `_groups.html` as
  functions of the tables of `Sequential`. The view repeats the service's
  decisions on queries of its own (it counts the part rule's meetings among the
  rows it lists), so agreement is a property and not a definition.
* **Roster**: the abstract specification. A member enters or leaves a meeting in
  one step, judged by the rows of that moment.
* **RegistrationProperties**: what must hold. **MCRegistration**, **MCSequential**:
  instances. **RegistrationProofs**, **RegistrationHistoryProofs**,
  **PartRuleProofs**, **PromiseProofs**, **SequentialProofs**: theorems.
* **RegistrationWindow**: the two updates of `registration_window.py` (load, commit,
  set the global), their failures, and the process that stops and starts. Its
  actions are composed by **WaitingRoom**, which adds the tabs of members who
  wait: login, the redirects of `/waiting` and `/meetings` (to each other and to
  `/login`), their errors, and `waiting.js`.
  **MCWaitingRoom** and **WaitingRoomProofs** are its instance and its theorems.
  The registration modules see the window through one flag that may change
  between any two of their steps, which covers everything this pair can do.
* **Sessions**: `auth.py`, the unlock and impersonation handlers of `admin.py`,
  `access.py` and `session_service.py`. A request carries a copy of the cookie,
  the handler changes the copy, the answer writes it back whenever it arrives.
  The edit of a member, which may take other admins' rights, is here in three
  steps: check, load, commit.
* **MeetingList**: `meetings_page`, the fragment and the filters on the server's
  side, `meeting_polling.js` on the browser's. What registrations and edits do to
  the list is one environment action (`ChangeListing`), which also covers a
  member who registers or is no longer let in.

### State and code

| variable | code |
|---|---|
| `member[m]` | row of `member`: `active`, `apply_enabled`, `host_enabled`, and the part of its module |
| `meeting[g]`, `meeting_host[g]` | rows of `meeting` (`status`, `capacity`) and `meeting_host` |
| `registration[m]` | row of `registration`; a function because `member_id` is unique |
| `registration_history[m]` | rows of `registration_history` of the member, oldest first |
| `registration_open` | what `registration_is_open()` answers |
| `member_lock`, `meeting_lock` | the transaction that holds the row (`None` when nobody does) |
| `apply[r]`, `cancel[r]` | locals of the two service functions for request `r`, and the answer |
| `schedule` | the row of `registration_schedule`, `NoRow` when there is none |
| `opens_at`, `show_host_information` | `_opens_at` and `_show_host_information` of the process |
| `running`, `stops` | whether the one process serves requests, how often it stopped |
| `update[u]` | locals of `update_registration_window` or `update_host_information_visibility` |
| `now` | the clock; server and browsers share its rate |
| `held` | history variable: the rows committed since the process started |
| `tab[c]` | page of a browser tab (`away` is the login page), `deadline`, `redirectTimer`, and the status request under way |
| `account[c]` | what `current_member` makes of the tab's session: an ordinary member, an admin or host, somebody deactivated, nobody |
| `meeting_form[r]`, `member_form[r]` | locals of the edit handlers: the form and the row they loaded |
| `jar[b]`, `pages[b]` | the session cookie of a browser, the tokens of the pages open in it |
| `request[r]` | a request and its answer: the cookie as sent, then as set; for an edit under way the row it has loaded |
| `last_login_ip`, `login_history` | the column and the successful rows of that table |
| `credentials`, `unlocked`, `issued` | history variables: where credentials were given, who entered the console password, whose session a token was made in |
| `overtaken` | history variable: edits under way whose sender lost the rights to another edit |
| `listing`, `version` | what the list contains for the member, and how often it has changed |
| `url`, `refreshUrl`, `chips` | the filters of the page's address and of `data-refresh-url`, whether the status chips are there |
| `shown` | the content of `#meeting-list-content`, with the version and filter it was made for |
| `poll[p]`, `newest`, `activeController` | the calls of `refresh` under way, the one whose `sequence` is `requestSequence`, the one that can be aborted |
| `submitting`, `hidden`, `in_use`, `pinnedMeetingId`, `pinned` | the script's flags and the state of the tooltips |

### Choices made in the model

* **Granularity.** A lock and the reads it protects are one action: the lock is
  the only moment at which another transaction matters to them. So `LockMember`
  takes the row lock and judges the applicant, and `LockMeeting` takes the lock
  and counts the part's members. `CountDistribution` is a step of its own
  because the number of meetings is another statement with its own snapshot.
  The open-host count and the existing registration are read in `LockMember`:
  the latter is protected by the member lock; the former is not, but nothing
  that happens later reads it again, so reading it at the lock or a moment
  later differs only in which console commits it sees. In
  `ReceiveHostMeetingEdit` the two reads of the access check are one step.
* **Locks.** `SELECT ... FOR UPDATE` excludes `UPDATE` and the `KEY SHARE` lock
  of a foreign key check; the lock of an `UPDATE` that changes no key does not
  exclude `KEY SHARE`. Hence a cancellation's history row waits for an
  application that has locked the meeting but not for an edit
  (`LockedForUpdate`), and a meeting's new host waits for an application or
  cancellation of that member. The row of `meeting_host`, the registration row
  (only ever locked under its member's lock) and locks held for a single step
  are not in the model.
* **Writes.** SQLAlchemy writes only the columns that differ from the loaded row
  (`MeetingUpdate`, `MemberUpdate`), and `db.get(MeetingHost)` flushes the
  pending `UPDATE meeting` first: that is where the meeting's lock is taken.
  Columns that no rule reads (texts, start time) are not modelled; a form whose
  text is invalid is represented by a capacity below one.
* **Commit and answer.** COMMIT is the exit of `async with db.begin()`; the answer
  is formed afterwards. So `CommitApply` and `CommitCancel` write the rows,
  release the locks and leave the request at the step `answer`, where
  `TellApplied` and `TellCancelled` end it.
* **Failures.** `AbortApply`, `AbortCancel`, `AbortMeetingForm` and
  `AbortMemberForm` end a request at any step: a lost connection, a stopped
  process, a cancelled request or a deadlock victim. Before the COMMIT the
  transaction dies with its connection, so locks go and nothing is written. At
  `answer` the COMMIT took effect, whether or not PostgreSQL's confirmation came
  through: the rows stay, the locks are gone, and the member gets an error or
  nothing, although registered. A console form has no such step: its commit and
  its answer are one, because no property reads the answer of a form.
* **Time** is counted in ticks, several to the millisecond, so that the cut-off of
  `registration_remaining_ms` is visible: a page may be told 0 ms although the
  window is still closed. "Immediately" (`None`) is time 0, which is always
  past. The 10 to 12 seconds between two status requests are left open
  (`AskStatus` may happen at any time), the 60 seconds of the redirect timer
  are `MaxTimer`.
* **One process.** The globals are per process; `k8s/06-deployment.yaml` asks for
  one replica that is stopped before its successor starts. `Stop` loses globals
  and requests under way, `Start` is `lifespan`.
* **Commits of the window.** After the commit the coroutine resumes in a step of
  its own (`SetCache`), because other coroutines run meanwhile and answers on
  different connections are unordered. SQLAlchemy emits an `UPDATE` only for a
  value that differs from the loaded one (`Written`), and a second `INSERT`
  violates the primary key (`Conflict`).
* **Tabs.** The session and the rights of a tab's user may change at any moment
  (`AccountChanges`): an edit makes the member an admin or host or deactivates
  it, the session expires or is changed in another tab. Admins and hosts are
  never sent to wait. `/waiting` sends everybody who is not an active member to
  the login page; `/meetings` does so without a session, and answers 401 to
  somebody deactivated; both clear such a session. The status endpoint asks for
  a session only. A navigation that finds no process, or fails in the handler,
  ends on an error page (`FailNavigation`), and only the user leaves that. What
  a page does while its successor is loading is ignored.
* **Sessions.** Nothing on the server revokes a cookie: `Receive` may bring a
  session back that a logout has ended, and `current_member` reads the member's
  row at every request. Which handler a request reaches is chosen when it runs;
  until then only its cookie and its form matter. `AnswerUnchanged` stands for
  all handlers that leave the session alone. The *person* of an impersonation is
  the admin. That the properties of sessions are about persons, not about the
  cookie of the moment, is deliberate: they are what is left when answers
  overtake one another. The tokens are finite for TLC only.
* **Edits in Sessions.** `admin_member_edit` checks the admin (`CheckConsole`), loads
  the row (`LoadMember`), and validates and commits (`SaveMember`), with awaits
  between and no lock on the admin's own row. Two admins may therefore pass the
  check, each revoke or deactivate the other, and both commit. `overtaken`
  records whose rights went this way; the property excuses these edits and no
  others. The commit writes the columns in which the form differs from the
  loaded row (`Update`), and an admin who edits itself has loaded the row of the
  check. `RefuseEdit` is every end without a commit.
* **The list.** A callback of the script runs as a whole up to its next `await`.
  An abort ends a poll that has been sent; one whose answer the browser has
  already read may still be delivered, which is more than browsers do. A new
  document (`Load`) is one step, and ends every poll of the old one.
* **Requests** (of the registration modules) are one-shot. A user who presses twice is two requests.
* **Environment.** The window may open or close between any two steps; it is
  closed at start.

## 3. What TLC checks

| run | instance | property | shows |
|---|---|---|---|
| `registrations` | 4 applications; one meeting with two parts of two, or two meetings with one and two seats | `CapacityRespected`, `PartsSpread` | the last seat, the second member of a part and the second pair are each contended |
| `edits` | 2 applications, 1 cancellation, a meeting edit by admin and one by host, a new member, one seat | `AnswersMatchHistory`, `DecisionsStillHold`, `HistoryExplainsRegistrations`, `ImplementsRoster`, `StatusChangedOnlyByAdmin` | the locks make check and commit one step, whatever the console does between; no lost update; a success told has its row, and a row without a success has a request that failed |
| `answers` | one application, cancellation, admin edit, creation and member edit, over two initial tables | `TypeOK`, `LocksMatchSteps`, `DecisionsStillHold`, `CancellationsStillHold`, `RequestsAnswered` | constraints, foreign keys, lock ownership; no wait is forever, and the deadlock that happens is broken |
| `sequential` | 3 members, 2 meetings, every form | `CapacityRespected`, `CancelledMeetingsEmpty`, `RegisteredMembersEligible`, `HostsActive`, `ApplyOffered`, `CancelOffered` | the rules are enough when calls do not overlap, and the list's buttons agree with them |
| `window` | one opening update, one visibility update, one restart, one tab, with and without a row at the start | `TypeOK`, `CacheWasCommitted`, `NoWaitBeyondDeadline`, `ColumnsIndependent`, `EveryoneEnters` | the cache holds committed settings, the updates do not touch each other's column, everyone who waits gets in or, without an active account, out |
| `sessions` | 2 admins, 3 addresses, one browser, 2 requests in flight, 3 tokens | `TypeOK`, `SessionsAuthenticated`, `ConsoleUnlocked`, `TokensPersonal`, `AddressesProved`, `EditsByConsoleOnly` | no order of logins, switches, revocations and late answers gives a person more than was entered; an edit's sender had the rights, and lost them only to another edit |
| `meeting_list` | 2 meetings, 4 listings, one change, 2 polls | `TypeOK`, `PinnedTooltipOpen`, `NeverBackwards`, `FilterKept`, `UserNotDisturbed`, `ListCatchesUp` | the script's flags, sequence and controller do what the plan asks of polling, and do not stop it |

Bounds: requests are counted by the constants, so histories have at most as many
rows as there are requests. Four applications suffice for the part rule, because
the smallest violation (two pairs, or a pair that may not be) takes four; two
applications, one cancellation and one edit by admin and by host (`edits`) and one
request of every other kind (`answers`) suffice for every pair of conflicting
transactions and for a third that holds a lock meanwhile. Members
and application requests are interchangeable where a cfg declares symmetry.
`sequential` counts no requests at all: its state space holds every sequence of
calls, however long. No run switches the deadlock check off; the window alone
keeps every state live.

In `window` an opening and a visibility update are the smallest pair that can write
each other's column, conflict on the first `INSERT` and be cut off by the
restart; tabs do not interact, so one is enough, and its account takes every value
at every moment. A millisecond has two ticks (one
is lost by truncation), the form's grid has four, `MaxTimer` is three, so that
one wait is longer than a timer. The clock stops at `MaxNow` = 8, no opening is
later. Two guards keep that bound from hiding anything: time does not pass that
bound while a page is on its way with a deadline that would lie beyond it
(`TimePasses`), and an answer as late as that counts as lost (`ReceiveStatus`,
`FailStatus`).

In `sessions` both members are admins, so that each may impersonate, deactivate and
revoke the other, also with both edits between check and commit; two requests are enough for every order of two answers, and
since a request may be lost at any point, for longer overlaps of which only the
last two matter. Three tokens allow a login after a switch of users. Three
addresses are needed because a login waits for confirmation from a second one and
may be confirmed from a third. In `meeting_list` a poll that is aborted and one that
replaces it, over a list that changes once, are the smallest case of a stale
answer; the listings differ in what the filters and checks look at.

Five further runs show where the program and its documents disagree. TLC's
counterexample is the scenario:

* `cancelled_meeting`: an edit counts no applicant, an application commits, the
  edit writes CANCELLED. The README promises that such a meeting has none. A
  smaller capacity slips in the same way.
* `stale_member_edit`: an edit finds no registration, the member's application
  commits, the edit takes the right to apply or the active flag.
* `late_cancel`: a cancellation reads OPEN without a lock, an admin closes the
  meeting, the cancellation commits.
* `stale_window`: an update asks for the opening it has loaded, so nothing is
  written; another one commits a later opening and sets the global; then the
  first sets it back. The row holds the later time, requests are judged by the
  earlier one until the next update or restart.
* `deadlock`: an edit holds the meeting and waits for the host-to-be, whose
  application holds the member and waits for the meeting. PostgreSQL breaks it
  (`BreakDeadlock`), so `RequestsAnswered` still holds, with an error.

`DecisionsStillHold` and the first two belong together: an application never
commits on stale facts, because it locks; an edit may, because it does not.

**Fairness** (`FairSpec`): each received request executes its next statement
when nothing blocks it (the event loop runs every coroutine, PostgreSQL every
statement), and the deadlock detector runs. Nothing is assumed of new requests,
of aborts or of the window, and no strong fairness of lock queues is needed with
one-shot requests. In the waiting room time passes, a stopped process is started
again (the deployment's restart policy), every navigation ends, answered or on an
error page, and timers fire; of the status requests nothing is assumed, all of them
may fail, and the updates may stop at any step. `EveryoneEnters` therefore promises
the list to whoever stays an active member, and excepts a navigation that fails. In the list the interval fires, a callback that can run does, and
the network is not down for ever: strong fairness of the newest poll's answer,
because aborts may keep disabling it. The script sets no timeout, so this includes
that a poll that hangs is ended by the browser or the network; until then no other
unforced poll starts. `ListCatchesUp` assumes that the member watches (no hidden
tab, open tooltip or form under way): the script pauses on purpose otherwise.
`Sessions` has no liveness property: nothing in it must happen.

## 4. What is proved

TLAPS checks the eight proof modules completely, the registration ones from `FiniteAssumption` (finitely
many members and meetings), `InitialAssumption` (the tables satisfy their
constraints and hosts are active members who may host) and the disjointness of
the kinds of requests.

**RegistrationProofs.** `Inv` is `TypeOK /\ LocksMatchSteps /\
DecisionsStillHold /\ CancellationsStillHold`, and it is inductive; one lemma per
action. Each part needs the others: that a decision still holds follows from the
locks (no other transaction can have committed a registration of the member, an
UPDATE of its row or of the meeting's), the locks from the steps, and that a
commit inserts a row in a foreign key's range from the types. The theorems
`RegistrationTypes`, `RegistrationLocks`, `RegistrationDecisions` and
`RegistrationCancellations` are its parts; `RegistrationRefinesRoster` shows
that every step of the transactions is an `Enter`, a `Leave`, an `Administer` or
a stutter of `Roster`, the decision facts giving the abstract guards at the
commit.

**RegistrationHistoryProofs.** `HistoryExplainsRegistrations` is an invariant of
`Roster` alone: `Enter` appends an APPLY for a member who was not registered,
`Leave` the CANCEL of the registration it deletes, and the refinement carries it
down to the transactions. `AnswersMatchHistory` says, for each member and meeting
and for APPLY and CANCEL, that there are at least as many rows as successes told
or about to be told, and at most as many as these and the failed requests
together: a success has a row of its own, and a row whose success was lost is
accounted for by the error that replaced it. The inductive part (`AnswersInv`)
counts finite sets (`Balanced`) and adds that an answer is the last thing a
request gets. A commit adds a row and a request at `answer` (`BalanceGrows`); a
later failure moves that request from the successes to the failures, which only
widens the bounds (`BalanceKept`).
`StatusChangedOnlyByAdmin` needs `HostForms`: a host's form asks for the status
its handler loaded, so its `UPDATE` leaves that column out whatever the column
has become.

**PartRuleProofs.** `apply_to_meeting` judges the part rule with three
statements: the applicants, under the meeting's lock, and two counts that
nothing protects. The applicants are protected to the end, so `PartsBalanced`
(at most one part with two applicants, none with three) needs one hypothesis
only, that no edit moves a member to another part (`NobodyMoves`): what
`part_registration_allowed` answered it would still answer at the commit
(`PartStillAllowed`). The rest of the rule, that only a part with more active
members than there are OPEN and CLOSED meetings may have two, needs the two
counts, and they may be out of date at the commit. They are so on the safe side
(`CountsOnSafeSide`) as long as a part does not shrink and the meetings do not
increase (`PartsStayLarge`), and then `RegistrationPartsSpread` gives the whole
rule. An edit outside that hypothesis changes what the rule asks of the
registrations there are, and the program does not ask again. Without edits the
hypothesis holds of itself (`RegistrationPartsSpreadWithoutEdits`): this is what
the run `registrations` checks.

**PromiseProofs.** The five runs that end in a violation show how a promise is
broken. These theorems show that it is broken in no other way, whatever overlaps
(the one about the window is in WaitingRoomProofs). The hypotheses are
conditions on the steps of console edits:

| theorem | promise | hypothesis |
|---|---|---|
| `RegistrationCapacity` | `CapacityRespected` | `CountsStillAllowed`: when the edit of a meeting commits, its status and capacity are still allowed with the applicants of that moment |
| `RegistrationCancelledEmpty` | `CancelledMeetingsEmpty` | the same |
| `RegistrationEligible` | `RegisteredMembersEligible` | `HostsStillEligible`: at the commit the chosen host is still eligible and the loaded one still the host; `MembersStillFree`: the member's registrations and hosted meetings are still none where its edit needs that |
| `RegistrationHostsActive` | `HostsActive` | the same two |
| `RegistrationCancelledWhileOpen` | `CancelledOnlyWhileOpen` | `OpenMeetingsStayOpen`: no edit closes the meeting of a cancellation that has read OPEN and not committed |

The first three say no more than that the validation an edit has made would
pass again at its commit, so they hold of every edit that nothing overtakes. What
registrations, cancellations and aborts do among themselves never breaks a
promise (`RegistrationPromisesWithoutEdits` has no condition on the steps), and a
repair of the program has to protect those reads of the edits and nothing else.
What carries the arguments: from `LockMember` to the commit no edit of the
applicant can be saved, so what `DecisionsStillHold` says of it stays true; the
right to apply excludes the right to host (the table's CHECK), so an edit whose
host is eligible makes no applicant host (`ApplicantsDoNotHost`); a host's form
asks for the status it has loaded (`HostForms`), so it cancels nothing. That
the hypotheses are needed is what the runs `cancelled_meeting`, `stale_member_edit`
and `late_cancel` show.

`RegistrationDeadlocks` says what every deadlock looks like: an admin's edit is
part of the circle that has written the meeting's row and waits for the member
it makes host. The argument follows the waits: whoever holds a member and waits,
waits for a meeting; whoever holds a meeting and waits is such an edit. Hence
`RegistrationNoDeadlock`: the plan's lock order works for all other handlers.

**SequentialProofs.** `SequentialInv` joins the four promises with the
constraints; they depend on each other (a host may be made inactive only because
no hosted meeting is missed, a meeting may be cancelled only because it is
empty). The capacity step is an argument on cardinalities: entering adds one
applicant to a meeting that had room. `SequentialApplyOffered` and
`SequentialCancelOffered` follow from it and from comparing the view's queries
with the service's: OPEN and CLOSED meetings are all listed, and a registered
member hosts no OPEN meeting, so the rule that hides a host's buttons hides no
cancel button.

**WaitingRoomProofs**, from `WindowAssumption` and `WaitingAssumption`. That the
globals are committed values is not inductive: `SourcesHeld` adds where the next
value of a global may come from (the row, the row an update has loaded, the value
it has committed), each of which is in `held`, and that no update is under way
while the process is down. With the types, those of tabs and accounts included, and
`NoWaitBeyondDeadline` it makes `IInv`, which `WaitingInvariant` proves for any number of updates, stops and
tabs and any `MaxNow`; `WindowCacheCommitted`, `WaitingTypes` and
`WaitingWakesInTime` are its parts, and `WindowColumns` follows from it step by
step: a committing update that finds a row has loaded one, so `Written` changes
its own column of the present row and not of the one it read.
`WindowOpensAsScheduled` is the counterpart of the run `stale_window`: as long as
no two updates of the opening are under way together (`OneWindowUpdate`; any
number of visibility updates may be), the process never opens before the saved
time. Its invariant `OpeningInv` says that the opening an update has loaded or
is about to cache is the row's, and that the global is the row's otherwise,
unless an update of the opening was answered with an error.

**SessionsProofs**, from `SessionsAssumption`. `SessionsInv` says the same of every
session wherever it is, in a browser, on its way or being answered
(`SessionGood`), and of every page (`PageGood`). That makes it inductive without
any argument about the order of answers: what a late answer brings back was good
when it was made, and the records it refers to only grow (`RecordsGrow`). That an
admin returns without a password is sound because an impersonation carries
`Person(s) \in unlocked`; that the return keeps the token, because the person does
not change. `SessionsEditsByConsole` is the action property. An edit verifies the
form's token, so the form was shown to the same person; that its sender has the
rights is not stable between check and commit, and `EditsOK`, inductive with
`SessionsInv` (`EditsInvariant`), says what is: the cookie's console flag, the form's
token, and the rights or a place in `overtaken`. The rights themselves can only go by
the commit of another edit, the one step that changes a member row.

**MeetingListProofs**, from `ListAssumption`. Only the newest poll may replace the
list. `NewestOK` adds what makes its answer the right one: it was asked for
with the filter chosen last (a chip's click starts a poll of its own, unless a form
is under way, and then nothing is replaced), and it was made no earlier than
what is shown; `AnswersOK` that an answer keeps the poll's filter.

Only model-checked: `RequestsAnswered`, `EveryoneEnters` and `ListCatchesUp`, the
three liveness properties: fairness and ENABLED are beyond the prover. Every
other property of the passing runs is the conclusion of a theorem; where that
theorem has a hypothesis on the steps, this section says which.

A note for whoever extends the proofs: in a module meant for tlapm write
`[f EXCEPT ![r] = [@ EXCEPT !.a = x, !.b = y]]`, not
`[f EXCEPT ![r].a = x, ![r].b = y]`; version 1.4.5 does not translate the
latter reliably for its SMT backend.

## 5. Not modelled

* Rows of failed logins, `admin_console_next` and the flash messages in the
  session, the `last_login_at` column: no rule reads them.
* `get_or_create_module` and the uniqueness of `login_id` and `employee_no`: a
  member has a part, and a duplicate ID is refused like any other invalid form.
* The order and grouping of the list, the style preview, form scripts, toasts,
  templates (but for the buttons) and styles: presentation without shared state.
* Configuration and health checks (read only), migrations (one-off DDL, whose
  constraints are in `Tables`), `seed_demo.py` (fills an empty database),
  deployment (one replica, replaced by recreating, is an assumption).
* A page whose statements see different snapshots: the list may then offer what
  the service refuses. `ApplyOffered` is about one snapshot; the service checks
  again under its locks.
* After a form is sent `submitting` stays true. If the page stays, or comes back by
  the Back button as it was, it is not refreshed again; `ListCatchesUp` assumes
  that no form stays under way, and no document says what should happen.
* A filter that no listed meeting has any more is dropped by the server
  (`Effective`), while the page still shows it as chosen until it is loaded again.

## 6. Plan

Done: registration with its policies, tables, console edits, abstract roster and
proofs, the part rule and the promises under overlap among them; the window and the waiting room; sessions; the list and its polling; the
agreement of view and service.

What could follow:

1. `load_public_meeting_views` beside `Registration`, each statement with its own
   snapshot, to state how far a page can be from what the service answers.
2. `get_or_create_module` with two overlapping forms that name the same new module.
