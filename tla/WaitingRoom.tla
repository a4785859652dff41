----------------------------- MODULE WaitingRoom -----------------------------
(***************************************************************************)
(* The browsers of members before the opening: waiting.html with           *)
(* static/js/waiting.js, and the redirects between /login, /waiting and    *)
(* /meetings of app/routers/pages.py, over the window of                   *)
(* RegistrationWindow.  Sessions and rights are an input here: they end,   *)
(* and are lost and given, at any time.                                    *)
(***************************************************************************)
EXTENDS RegistrationWindow

CONSTANTS
  Clients,     \* browser tabs
  TicksPerMs,  \* ticks in one millisecond of remaining_ms
  MaxTimer     \* the 60 seconds after which a redirect timer looks again

ASSUME WaitingAssumption ==
  /\ TicksPerMs \in Nat \ {0} /\ MaxTimer \in Nat \ {0}
  /\ Openings \subseteq 0 .. MaxNow

VARIABLES
  tab,
  account   \* what the session of the tab, and the member's row, say of its user

vars == <<windowVars, tab, account>>

\* An admin or a host is privileged, somebody deactivated keeps the session until it is
\* looked at.
Accounts == {"member", "privileged", "inactive", "signed_out"}
Active == {"member", "privileged"}

\* Mutant: the difference is not cut off at zero.
SignedRemainingMs == (opens_at - now) \div TicksPerMs

\* registration_remaining_ms: whole milliseconds, cut off.
RemainingMs == IF RegistrationIsOpen THEN 0 ELSE (opens_at - now) \div TicksPerMs

Pages == {"away", "to_list", "to_waiting", "rendered", "waiting", "list", "error"}

TabRecord ==
  [page : Pages, remaining_ms : Nat, deadline : Nat, timer : Nat,
   sync : {"scheduled", "asked", "answered"}, open : BOOLEAN]

Blank == [page |-> "away", remaining_ms |-> 0, deadline |-> 0, timer |-> 0,
          sync |-> "scheduled", open |-> FALSE]

At(page) == [Blank EXCEPT !.page = page]

Go(c, page) == tab' = [tab EXCEPT ![c] = At(page)]

\* An admin edits the member, the session expires or is changed in another tab.
AccountChanges(c) ==
  /\ \E a \in Accounts : account' = [account EXCEPT ![c] = a]
  /\ UNCHANGED <<windowVars, tab>>

\* current_member finds the member inactive and clears the session.
Clear(c) == account' = [account EXCEPT ![c] = "signed_out"]

\* registration_is_open() or an admin or host.
Admitted(a) == RegistrationIsOpen \/ a = "privileged"

\* post_login_destination.
Login(c) ==
  /\ tab[c].page = "away" /\ running
  /\ \E a \in Active : /\ account' = [account EXCEPT ![c] = a]
                      /\ Go(c, IF Admitted(a) THEN "to_list" ELSE "to_waiting")
  /\ UNCHANGED windowVars

\* A navigation that no server answers, or that fails there, ends on an error page.
FailNavigation(c) ==
  /\ tab[c].page \in {"to_list", "to_waiting"}
  /\ Go(c, "error")
  /\ UNCHANGED <<windowVars, account>>

\* GET /meetings.
GetMeetings(c) ==
  /\ tab[c].page = "to_list" /\ running
  /\ \/ /\ account[c] = "signed_out"
        /\ Go(c, "away")
        /\ UNCHANGED account
     \/ /\ account[c] = "inactive"
        /\ Go(c, "error") /\ Clear(c)
     \/ /\ account[c] \in Active
        /\ Go(c, IF Admitted(account[c]) THEN "list" ELSE "to_waiting")
        /\ UNCHANGED account
  /\ UNCHANGED windowVars

\* The list reloads itself when a poll is refused (409), the user reloads any page or
\* comes back with a session.
Reload(c) ==
  /\ tab[c].page \in {"away", "list", "error"}
  /\ Go(c, "to_list")
  /\ UNCHANGED <<windowVars, account>>

\* GET /waiting: the page carries the time that remained when it was rendered.
GetWaiting(c) ==
  /\ tab[c].page = "to_waiting" /\ running
  /\ \/ /\ account[c] \notin Active
        /\ Go(c, "away") /\ Clear(c)
     \/ /\ account[c] \in Active /\ Admitted(account[c])
        /\ Go(c, "to_list")
        /\ UNCHANGED account
     \/ /\ account[c] \in Active /\ ~Admitted(account[c])
        /\ tab' = [tab EXCEPT ![c] = [At("rendered") EXCEPT !.remaining_ms = RemainingMs]]
        /\ UNCHANGED account
  /\ UNCHANGED windowVars

\* scheduleRedirect: leave, or look again at the deadline and after MaxTimer at the
\* latest.
Timer(deadline) ==
  now + (IF deadline - now < MaxTimer THEN deadline - now ELSE MaxTimer)

ScheduleRedirect(t, deadline) ==
  IF deadline <= now THEN At("to_list")
  ELSE [t EXCEPT !.page = "waiting", !.deadline = deadline, !.timer = Timer(deadline)]

DeadlineIn(remaining) == now + TicksPerMs * remaining

\* The script runs when the page has arrived.
LoadWaiting(c) ==
  /\ tab[c].page = "rendered"
  /\ tab' = [tab EXCEPT ![c] = ScheduleRedirect(Blank, DeadlineIn(@.remaining_ms))]
  /\ UNCHANGED <<windowVars, account>>

\* Mutant: the timer is not set again after MaxTimer.
RedirectOnce(c) ==
  /\ tab[c].page = "waiting" /\ now >= tab[c].timer /\ tab[c].timer # 0
  /\ tab' = [tab EXCEPT ![c] = IF @.deadline <= now THEN At("to_list") ELSE [@ EXCEPT !.timer = 0]]
  /\ UNCHANGED <<windowVars, account>>

\* The redirect timer; a status request under way goes on.
Redirect(c) ==
  /\ tab[c].page = "waiting" /\ now >= tab[c].timer
  /\ tab' = [tab EXCEPT ![c] = ScheduleRedirect(@, @.deadline)]
  /\ UNCHANGED <<windowVars, account>>

\* syncWithServer, 10 to 12 seconds after the last one.
AskStatus(c) ==
  /\ tab[c].page = "waiting" /\ tab[c].sync = "scheduled"
  /\ tab' = [tab EXCEPT ![c].sync = "asked"]
  /\ UNCHANGED <<windowVars, account>>

\* GET /registration-window/status asks for a session, not for the member.
AnswerStatus(c) ==
  /\ tab[c].page = "waiting" /\ tab[c].sync = "asked" /\ running
  /\ account[c] # "signed_out"
  /\ tab' = [tab EXCEPT ![c] = [@ EXCEPT !.sync = "answered", !.open = RegistrationIsOpen,
                                         !.remaining_ms = RemainingMs]]
  /\ UNCHANGED <<windowVars, account>>

\* Mutant: the new deadline does not move the timer.
ReceiveStatusOnly(c) ==
  /\ tab[c].page = "waiting" /\ tab[c].sync = "answered"
  /\ DeadlineIn(tab[c].remaining_ms) <= MaxNow
  /\ tab' = [tab EXCEPT ![c] =
               IF @.open THEN At("to_list")
               ELSE [@ EXCEPT !.sync = "scheduled", !.remaining_ms = 0,
                              !.deadline = DeadlineIn(tab[c].remaining_ms)]]
  /\ UNCHANGED <<windowVars, account>>

\* The same bound on a late answer: FailStatus stands for a later one.
ReceiveStatus(c) ==
  /\ tab[c].page = "waiting" /\ tab[c].sync = "answered"
  /\ DeadlineIn(tab[c].remaining_ms) <= MaxNow
  /\ tab' = [tab EXCEPT ![c] = IF @.open THEN At("to_list")
                               ELSE ScheduleRedirect(Blank, DeadlineIn(@.remaining_ms))]
  /\ UNCHANGED <<windowVars, account>>

\* The request fails or is refused (401); finally sets the next one up.
FailStatus(c) ==
  /\ tab[c].page = "waiting" /\ tab[c].sync \in {"asked", "answered"}
  /\ tab' = [tab EXCEPT ![c] = [@ EXCEPT !.sync = "scheduled", !.open = FALSE,
                                         !.remaining_ms = 0]]
  /\ UNCHANGED <<windowVars, account>>

ClientStep(c) ==
  \/ AccountChanges(c) \/ Login(c) \/ FailNavigation(c) \/ GetMeetings(c) \/ Reload(c)
  \/ GetWaiting(c) \/ LoadWaiting(c) \/ Redirect(c)
  \/ AskStatus(c) \/ AnswerStatus(c) \/ ReceiveStatus(c) \/ FailStatus(c)

Init ==
  /\ WindowInit
  /\ tab = [c \in Clients |-> Blank] /\ account = [c \in Clients |-> "signed_out"]

\* Bound: a page is not on its way for so long that its deadline is past MaxNow.
TimePasses ==
  /\ \A c \in Clients : tab[c].page = "rendered" => DeadlineIn(tab[c].remaining_ms) < MaxNow
  /\ Tick
  /\ UNCHANGED <<tab, account>>

Next ==
  \/ WindowStep /\ UNCHANGED <<tab, account>>
  \/ TimePasses
  \/ \E c \in Clients : ClientStep(c)

Spec == Init /\ [][Next]_vars

\* Time passes, the process is started again, navigations end and timers fire.
\* Nothing is assumed of the status requests: all of them may fail.
Fairness ==
  /\ WF_vars(TimePasses)
  /\ WF_vars(Start /\ UNCHANGED <<tab, account>>)
  /\ \A c \in Clients :
       /\ WF_vars(GetMeetings(c) \/ FailNavigation(c))
       /\ WF_vars(GetWaiting(c) \/ FailNavigation(c))
       /\ WF_vars(LoadWaiting(c))
       /\ WF_vars(Redirect(c))

FairSpec == Spec /\ Fairness

-----------------------------------------------------------------------------
\* Every variable has its type; what the server answers is never a negative time.
TypeOK ==
  WindowTypeOK /\ tab \in [Clients -> TabRecord] /\ account \in [Clients -> Accounts]

\* The script never sleeps past the deadline it shows, whatever the order of its timers
\* and of the answers that move the deadline.
NoWaitBeyondDeadline ==
  \A c \in Clients : tab[c].page = "waiting" => tab[c].timer <= tab[c].deadline

\* Everyone who logs in reaches the list after the opening without doing anything,
\* however often the opening is moved and though every status request may fail.  Only a
\* navigation that fails is not repeated, and only whoever is deactivated or whose
\* session ends is sent to the login page instead.
EveryoneEnters ==
  \A c \in Clients :
    tab[c].page # "away" ~> tab[c].page \in {"list", "error"} \/ account[c] \notin Active
=============================================================================
