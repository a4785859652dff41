---------------------------- MODULE MeetingList ----------------------------
(***************************************************************************)
(* The meeting list as one member sees it: meetings_page and               *)
(* meetings_status_fragment of app/routers/pages.py, the filters of        *)
(* app/services/meeting_view.py, and the script of the page,               *)
(* app/static/js/meeting_polling.js, which replaces the cards every five   *)
(* seconds unless a tooltip is in use or a form is being sent.             *)
(*                                                                         *)
(* A callback of the script runs as a whole; others run while it awaits    *)
(* an answer.                                                              *)
(***************************************************************************)
EXTENDS Integers

CONSTANTS
  Meetings, Neighborhoods, Dates,
  Filters,       \* the filters of links to the list
  Chips,         \* the values of the status chips
  Listings,      \* what the list can contain for this member
  MaxChanges,    \* bound on the changes of the list
  Polls,         \* polls that may be under way at once, aborted ones included
  None

Availabilities == {"all", "available", "full", "closed"}

Filter == [neighborhoods : SUBSET Neighborhoods, dates : SUBSET Dates,
           availability : Availabilities]

Card == [neighborhood : Neighborhoods, date : Dates,
         status : {"OPEN", "CLOSED", "CANCELLED"}, full : BOOLEAN, can_apply : BOOLEAN]

\* cards: the meetings that are not DRAFT; show_availability_filter: whether the member
\* may still choose; admitted: whether the member may see the list at all.
ASSUME ListAssumption ==
  /\ None \notin Meetings \cup Polls
  /\ Filters \subseteq Filter
  /\ Chips \subseteq Availabilities
  /\ MaxChanges \in Nat
  /\ \A l \in Listings :
       /\ l.show_availability_filter \in BOOLEAN /\ l.admitted \in BOOLEAN
       /\ DOMAIN l.cards \subseteq Meetings /\ l.cards \in [DOMAIN l.cards -> Card]

NoFilter == [neighborhoods |-> {}, dates |-> {}, availability |-> "all"]

\* What is inside #meeting-list-content, and where it comes from.
Content == [version : 0 .. MaxChanges, filter : Filter, meetings : SUBSET Meetings]
NoContent == [version |-> 0, filter |-> NoFilter, meetings |-> {}]

PollRecord == [pc : {"idle", "sent", "answered", "refused"}, force : BOOLEAN,
               filter : Filter, content : Content]
IdlePoll == [pc |-> "idle", force |-> FALSE, filter |-> NoFilter, content |-> NoContent]

VARIABLES
  listing, version,   \* the server's side, and the changes so far
  page,               \* "reloading": window.location.reload() has been called
  url,                \* the filter in the page's address
  refreshUrl,         \* the filter of the next poll
  chips,              \* the page was rendered with the status chips
  shown,              \* the content of the list
  submitting, hidden,
  in_use,             \* the pointer or the focus is on a tooltip
  pinnedMeetingId,
  pinned,             \* the meetings whose tooltip has the class "pinned"
  poll, newest,       \* newest is the poll whose sequence is requestSequence
  activeController    \* the poll that it controls

server == <<listing, version>>
address == <<page, url, refreshUrl, chips>>
tooltips == <<in_use, pinnedMeetingId, pinned>>
polls == <<poll, newest, activeController>>
vars == <<server, address, shown, submitting, hidden, tooltips, polls>>

-----------------------------------------------------------------------------
\* build_meeting_filter_context drops values that no listed meeting has, and
\* _meeting_list_context the status of a member who cannot choose any more.
Effective(f) ==
  LET listed == {listing.cards[g] : g \in DOMAIN listing.cards} IN
  [neighborhoods |-> f.neighborhoods \cap {c.neighborhood : c \in listed},
   dates |-> f.dates \cap {c.date : c \in listed},
   availability |-> IF listing.show_availability_filter THEN f.availability ELSE "all"]

HasAvailability(card, availability) ==
  CASE availability = "all" -> TRUE
    [] availability = "available" -> card.can_apply
    [] availability = "full" -> card.status = "OPEN" /\ card.full
    [] availability = "closed" -> card.status = "CLOSED"

Selected(card, f) ==
  /\ f.neighborhoods # {} => card.neighborhood \in f.neighborhoods
  /\ f.dates # {} => card.date \in f.dates
  /\ HasAvailability(card, f.availability)

\* The cards for the filter f, which is kept with them.
Rendered(f) ==
  [version |-> version, filter |-> f,
   meetings |-> {g \in DOMAIN listing.cards : Selected(listing.cards[g], Effective(f))}]

\* Registrations, edits, the window and the member's own rights change the list.
ChangeListing(l) ==
  /\ version < MaxChanges
  /\ version' = version + 1
  /\ listing' = l
  /\ UNCHANGED <<address, shown, submitting, hidden, tooltips, polls>>

-----------------------------------------------------------------------------
\* restorePinnedTooltip, for the tooltip of w in a list of the meetings ms.
RestorePinnedTooltip(w, ms) ==
  /\ pinned' = {w} \cap ms
  /\ pinnedMeetingId' = IF w \in ms THEN w ELSE None

TooltipInUse == in_use \/ pinned # {}

\* Mutant: polls do not wait for one another.
AlwaysMayStart(force) == TRUE

MayStart(force) == force \/ activeController = None

MayRefresh(force, isHidden) ==
  /\ ~submitting
  /\ force \/ ~(isHidden \/ TooltipInUse)
  /\ MayStart(force)

\* fetch in the slot p.  The poll under way is aborted; an answer that has already been
\* read may still be delivered.
StartPoll(p, force, filter) ==
  /\ poll[p].pc = "idle"
  /\ \E aborted \in SUBSET ({activeController} \cap Polls) :
       /\ \A q \in {activeController} \cap Polls : poll[q].pc = "sent" => q \in aborted
       /\ poll' = [q \in Polls |->
                     IF q = p THEN [IdlePoll EXCEPT !.pc = "sent", !.force = force,
                                                    !.filter = filter]
                     ELSE IF q \in aborted THEN IdlePoll ELSE poll[q]]
  /\ newest' = p
  /\ activeController' = p

\* refresh, up to its first await.
Refresh(p, force, filter, isHidden) ==
  IF MayRefresh(force, isHidden) THEN StartPoll(p, force, filter) ELSE UNCHANGED polls

\* setInterval.
Interval(p) ==
  /\ page # "left"
  /\ MayRefresh(FALSE, hidden)
  /\ StartPoll(p, FALSE, refreshUrl)
  /\ UNCHANGED <<server, address, shown, submitting, hidden, tooltips>>

\* Mutant: the chip waits for the next interval while a poll is under way.
ChipRefreshUnforced(p, filter) == Refresh(p, FALSE, filter, hidden)

ChipRefresh(p, filter) == Refresh(p, TRUE, filter, hidden)

\* A click on a status chip is also one outside the tooltips.
ClickChip(p, value) ==
  /\ page # "left" /\ chips
  /\ url' = [url EXCEPT !.availability = value]
  /\ refreshUrl' = [refreshUrl EXCEPT !.availability = value]
  /\ ChipRefresh(p, refreshUrl')
  /\ RestorePinnedTooltip(None, shown.meetings)
  /\ UNCHANGED <<server, page, chips, shown, submitting, hidden, in_use>>

Hide ==
  /\ page # "left" /\ ~hidden
  /\ hidden' = TRUE
  /\ UNCHANGED <<server, address, shown, submitting, tooltips, polls>>

\* visibilitychange.
Show(p) ==
  /\ page # "left" /\ hidden
  /\ hidden' = FALSE
  /\ Refresh(p, FALSE, refreshUrl, FALSE)
  /\ UNCHANGED <<server, address, shown, submitting, tooltips>>

Hover ==
  /\ shown.meetings # {}
  /\ in_use' = ~in_use
  /\ UNCHANGED <<server, address, shown, submitting, hidden, pinnedMeetingId, pinned, polls>>

\* A click on the trigger of g's tooltip.
Pin(g) ==
  /\ g \in shown.meetings
  /\ RestorePinnedTooltip(IF pinnedMeetingId = g THEN None ELSE g, shown.meetings)
  /\ UNCHANGED <<server, address, shown, submitting, hidden, in_use, polls>>

\* A click elsewhere, or Escape.
Unpin ==
  /\ pinned # {}
  /\ RestorePinnedTooltip(None, shown.meetings)
  /\ UNCHANGED <<server, address, shown, submitting, hidden, in_use, polls>>

\* An apply or cancel form of a card is sent.
Submit ==
  /\ shown.meetings # {} /\ ~submitting
  /\ submitting' = TRUE
  /\ RestorePinnedTooltip(None, shown.meetings)
  /\ UNCHANGED <<server, address, shown, hidden, in_use, polls>>

-----------------------------------------------------------------------------
\* Mutant: the fragment comes from a cache.
CachedFragment(p) == [Rendered(poll[p].filter) EXCEPT !.version = 0]

\* Cache-Control: no-store, and cache: "no-store" in the script.
Fragment(p) == Rendered(poll[p].filter)

\* meetings_status_fragment; 401, 403 and 409 are one refusal.
Answer(p) ==
  /\ poll[p].pc = "sent"
  /\ poll' = [poll EXCEPT ![p] =
                IF listing.admitted
                THEN [@ EXCEPT !.pc = "answered", !.content = Fragment(p)]
                ELSE [@ EXCEPT !.pc = "refused"]]
  /\ UNCHANGED <<server, address, shown, submitting, hidden, tooltips, newest,
                 activeController>>

\* Mutant: finally forgets the controller of a later poll.
ForgetController(p) == None

\* The finally block.
ControllerAfter(p) == IF activeController = p THEN None ELSE activeController

Settle(p) ==
  /\ poll' = [poll EXCEPT ![p] = IdlePoll]
  /\ activeController' = ControllerAfter(p)
  /\ UNCHANGED newest

\* The network fails, or the server answers with an error.
Lose(p) ==
  /\ poll[p].pc # "idle"
  /\ Settle(p)
  /\ UNCHANGED <<server, address, shown, submitting, hidden, tooltips>>

\* Mutant: whether a form is being sent is asked at the start of the poll only.
WantedWhileSubmitting(p) == (poll[p].force \/ ~TooltipInUse) /\ newest = p

\* The checks after the await.
Wanted(p) == (poll[p].force \/ ~TooltipInUse) /\ ~submitting /\ newest = p

\* Mutant: the tooltip stays pinned in name only.
ReplaceWithoutRestore(content) == shown' = content /\ UNCHANGED <<pinnedMeetingId, pinned>>

Replace(content) ==
  shown' = content /\ RestorePinnedTooltip(pinnedMeetingId, content.meetings)

Receive(p) ==
  /\ poll[p].pc = "answered"
  /\ IF Wanted(p)
     THEN Replace(poll[p].content) /\ in_use' = (in_use /\ poll[p].content.meetings # {})
     ELSE UNCHANGED <<shown, tooltips>>
  /\ Settle(p)
  /\ UNCHANGED <<server, address, submitting, hidden>>

ReceiveRefusal(p) ==
  /\ poll[p].pc = "refused"
  /\ page' = "reloading"
  /\ Settle(p)
  /\ UNCHANGED <<server, url, refreshUrl, chips, shown, submitting, hidden, tooltips>>

\* A new document, by a link, a reload or the redirect after a form: meetings_page
\* renders it, or sends the member to /login or /waiting.
Load(f) ==
  /\ IF listing.admitted
     THEN /\ page' = "open"
          /\ url' = f
          /\ refreshUrl' = Effective(f)
          /\ chips' = listing.show_availability_filter
          /\ shown' = Rendered(Effective(f))
     ELSE /\ page' = "left"
          /\ url' = NoFilter /\ refreshUrl' = NoFilter
          /\ chips' = FALSE
          /\ shown' = NoContent
  /\ submitting' = FALSE /\ hidden' = FALSE /\ in_use' = FALSE
  /\ pinnedMeetingId' = None /\ pinned' = {}
  /\ poll' = [p \in Polls |-> IdlePoll]
  /\ newest' = None /\ activeController' = None
  /\ UNCHANGED server

Reload == page = "reloading" /\ Load(url)

-----------------------------------------------------------------------------
Init ==
  /\ listing \in Listings /\ version = 0
  /\ page = "left" /\ url = NoFilter /\ refreshUrl = NoFilter /\ chips = FALSE
  /\ shown = NoContent
  /\ submitting = FALSE /\ hidden = FALSE /\ in_use = FALSE
  /\ pinnedMeetingId = None /\ pinned = {}
  /\ poll = [p \in Polls |-> IdlePoll]
  /\ newest = None /\ activeController = None

Next ==
  \/ \E l \in Listings : ChangeListing(l)
  \/ \E p \in Polls : Interval(p) \/ Show(p) \/ Answer(p) \/ Lose(p) \/ Receive(p)
                        \/ ReceiveRefusal(p)
  \/ \E p \in Polls, value \in Chips : ClickChip(p, value)
  \/ Hide \/ Hover \/ Unpin \/ Submit
  \/ \E g \in Meetings : Pin(g)
  \/ \E f \in Filters : Load(f)
  \/ Reload

Spec == Init /\ [][Next]_vars

\* The timer fires, a callback that can run does, and the network is not down for ever.
Fairness ==
  /\ WF_vars(\E p \in Polls : Interval(p))
  /\ SF_vars(\E p \in Polls : p = newest /\ Answer(p))
  /\ \A p \in Polls : SF_vars(Receive(p) \/ ReceiveRefusal(p))
  /\ WF_vars(Reload)

FairSpec == Spec /\ Fairness

-----------------------------------------------------------------------------
\* Every variable has its type; activeController is the newest poll while that is
\* under way, and only then set.
TypeOK ==
  /\ listing \in Listings /\ version \in 0 .. MaxChanges
  /\ page \in {"left", "open", "reloading"}
  /\ url \in Filter /\ refreshUrl \in Filter /\ chips \in BOOLEAN
  /\ shown \in Content
  /\ submitting \in BOOLEAN /\ hidden \in BOOLEAN /\ in_use \in BOOLEAN
  /\ poll \in [Polls -> PollRecord]
  /\ newest \in Polls \cup {None}
  /\ activeController = IF newest \in Polls /\ poll[newest].pc # "idle" THEN newest ELSE None

\* The tooltip the user has pinned is the one that is open, through every replacement.
PinnedTooltipOpen == pinned = {pinnedMeetingId} \ {None} /\ pinned \subseteq shown.meetings

\* The same document, with other content.
Replaced == page' # "left" /\ shown' # shown /\ \E p \in Polls : Receive(p)

\* An answer is never replaced by one about an earlier state of the list.
NeverBackwards == [][Replaced => shown'.version >= shown.version]_vars

\* IMPLEMENTATION_PLAN.md: polling keeps the filter.  Whatever was under way when a chip
\* was clicked, new content is that of the filter chosen last.
FilterKept == [][Replaced => shown'.filter = refreshUrl]_vars

\* IMPLEMENTATION_PLAN.md: polling does not close a tooltip in use.  The script also keeps
\* the cards in place while a form is sent (meeting_polling.js, lines 32 to 39 and 58).
\* Both hold when the tooltip or the form came after the poll.  Only the answer to a click
\* on a chip, the last poll there is, may come over a tooltip.
UserNotDisturbed ==
  [][Replaced => /\ ~submitting
                 /\ TooltipInUse => newest \in Polls /\ poll[newest].force]_vars

\* A member who keeps looking at the list, and leaves the chips alone, sees it as it is
\* or is led away from it.
Watching == ~hidden /\ ~TooltipInUse /\ ~submitting
UpToDate == shown.version = version /\ shown.filter = refreshUrl
ListCatchesUp ==
  <>[]Watching /\ <>[][\A p \in Polls, value \in Chips : ~ClickChip(p, value)]_vars
    => <>[](page = "left" \/ UpToDate)
=============================================================================
