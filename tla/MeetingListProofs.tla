------------------------- MODULE MeetingListProofs -------------------------
(***************************************************************************)
(* The safety properties of MeetingList for every set of meetings,         *)
(* filters, listings and polls.                                            *)
(*                                                                         *)
(* The argument is about the newest poll, the only one whose answer may    *)
(* replace the list: unless a form is being sent it asks for the filter    *)
(* chosen last (NewestOK), and its answer was made no earlier than the     *)
(* list that is shown.  ListCatchesUp is left to TLC.                      *)
(***************************************************************************)
EXTENDS MeetingList, TLAPS

PageOK ==
  /\ listing \in Listings /\ version \in 0 .. MaxChanges
  /\ page \in {"left", "open", "reloading"}
  /\ url \in Filter /\ refreshUrl \in Filter /\ chips \in BOOLEAN
  /\ shown \in Content
  /\ submitting \in BOOLEAN /\ hidden \in BOOLEAN /\ in_use \in BOOLEAN
  /\ shown.version <= version

PollsOK ==
  /\ poll \in [Polls -> PollRecord]
  /\ newest \in Polls \cup {None}
  /\ activeController = IF newest \in Polls /\ poll[newest].pc # "idle" THEN newest ELSE None

AnswersOK ==
  \A p \in Polls : poll[p].pc = "answered" =>
    poll[p].content.filter = poll[p].filter /\ poll[p].content.version <= version

NewestOK ==
  newest \in Polls =>
    /\ poll[newest].pc # "idle" /\ ~submitting => poll[newest].filter = refreshUrl
    /\ poll[newest].pc = "answered" => poll[newest].content.version >= shown.version

ListInv == PageOK /\ PinnedTooltipOpen /\ PollsOK /\ AnswersOK /\ NewestOK

-----------------------------------------------------------------------------
LEMMA EffectiveFilter ==
  ASSUME NEW f \in Filter
  PROVE  Effective(f) \in Filter
  BY DEF Filter, Effective, Availabilities

LEMMA RenderedContent ==
  ASSUME PageOK, NEW f \in Filter
  PROVE  /\ Rendered(f) \in Content
         /\ Rendered(f).version = version /\ Rendered(f).filter = f
<1>1. DOMAIN listing.cards \subseteq Meetings
  BY ListAssumption DEF PageOK
<1>2. {g \in DOMAIN listing.cards : Selected(listing.cards[g], Effective(f))} \subseteq Meetings
  BY <1>1
<1> QED
  BY <1>2 DEF PageOK, Rendered, Content

LEMMA EmptyContent ==
  NoFilter \in Filter /\ NoContent \in Content /\ NoContent.version = 0 /\ NoContent.meetings = {}
<1>1. NoFilter \in Filter
  BY DEF NoFilter, Filter, Availabilities
<1> QED
  BY <1>1, ListAssumption DEF NoContent, Content

LEMMA IdlePollType ==
  IdlePoll \in PollRecord /\ IdlePoll.pc = "idle"
  BY EmptyContent DEF IdlePoll, PollRecord

\* Whatever tooltip is pinned, it is pinned in name and in the list.
LEMMA RestoreOpens ==
  ASSUME NEW w, NEW ms \in SUBSET Meetings, RestorePinnedTooltip(w, ms)
  PROVE  pinned' = {pinnedMeetingId'} \ {None} /\ pinned' \subseteq ms
  BY ListAssumption DEF RestorePinnedTooltip

\* A new poll: it becomes the newest, and others are aborted or left alone.
LEMMA StartedPoll ==
  ASSUME PollsOK, NEW p \in Polls, NEW force \in BOOLEAN, NEW filter \in Filter,
         StartPoll(p, force, filter)
  PROVE  /\ PollsOK'
         /\ newest' = p /\ poll'[p].pc = "sent" /\ poll'[p].filter = filter
         /\ \A q \in Polls : poll'[q].pc = "answered" => q # p /\ poll'[q] = poll[q]
<1> DEFINE new == [IdlePoll EXCEPT !.pc = "sent", !.force = force, !.filter = filter]
<1>1. new \in PollRecord /\ new.pc = "sent" /\ new.filter = filter
  BY IdlePollType DEF PollRecord, IdlePoll
<1>2. PICK aborted \in SUBSET ({activeController} \cap Polls) :
        poll' = [q \in Polls |-> IF q = p THEN new ELSE IF q \in aborted THEN IdlePoll ELSE poll[q]]
  BY DEF StartPoll
<1>3. newest' = p /\ activeController' = p
  BY DEF StartPoll
<1> HIDE DEF new
<1>4. poll' \in [Polls -> PollRecord] /\ poll'[p] = new
  BY <1>1, <1>2, IdlePollType DEF PollsOK
<1>5. PollsOK'
  BY <1>1, <1>3, <1>4 DEF PollsOK
<1>6. \A q \in Polls : poll'[q].pc = "answered" => q # p /\ poll'[q] = poll[q]
  BY <1>1, <1>2, IdlePollType
<1> QED
  BY <1>1, <1>3, <1>4, <1>5, <1>6

\* With a poll under way or not, the invariant about polls survives a start.
LEMMA StartedInvariant ==
  ASSUME PollsOK, AnswersOK, NEW p \in Polls, NEW force \in BOOLEAN,
         refreshUrl' \in Filter, StartPoll(p, force, refreshUrl'), version' = version
  PROVE  PollsOK' /\ AnswersOK' /\ NewestOK'
<1>1. /\ PollsOK' /\ newest' = p /\ poll'[p].pc = "sent" /\ poll'[p].filter = refreshUrl'
      /\ \A q \in Polls : poll'[q].pc = "answered" => q # p /\ poll'[q] = poll[q]
  BY StartedPoll
<1> QED
  BY <1>1 DEF AnswersOK, NewestOK

LEMMA UnchangedPolls ==
  ASSUME ListInv, UNCHANGED polls, UNCHANGED <<version, refreshUrl, shown>>,
         submitting => submitting'
  PROVE  PollsOK' /\ AnswersOK' /\ NewestOK'
  BY DEF ListInv, PollsOK, AnswersOK, NewestOK, polls

\* A poll that has been dealt with.
LEMMA SettledPoll ==
  ASSUME PollsOK, NEW p \in Polls, poll[p].pc # "idle", Settle(p)
  PROVE  /\ PollsOK' /\ newest' = newest /\ poll'[p].pc = "idle"
         /\ \A q \in Polls : q # p => poll'[q] = poll[q]
<1>1. /\ poll' = [poll EXCEPT ![p] = IdlePoll] /\ newest' = newest
      /\ activeController' = IF activeController = p THEN None ELSE activeController
  BY DEF Settle, ControllerAfter
<1>2. poll' \in [Polls -> PollRecord] /\ poll'[p] = IdlePoll
      /\ \A q \in Polls : q # p => poll'[q] = poll[q]
  BY <1>1, IdlePollType DEF PollsOK
<1>3. activeController' = IF newest \in Polls /\ poll'[newest].pc # "idle" THEN newest ELSE None
  BY <1>1, <1>2, IdlePollType, ListAssumption DEF PollsOK
<1> QED
  BY <1>1, <1>2, <1>3, IdlePollType DEF PollsOK

LEMMA SettledAnswers ==
  ASSUME PollsOK, AnswersOK, NEW p \in Polls, poll[p].pc # "idle", Settle(p), version' = version
  PROVE  AnswersOK'
<1>1. poll'[p].pc = "idle" /\ \A q \in Polls : q # p => poll'[q] = poll[q]
  BY SettledPoll
<1> QED
  BY <1>1 DEF AnswersOK

LEMMA SettledNewest ==
  ASSUME PollsOK, NewestOK, NEW p \in Polls, poll[p].pc # "idle", Settle(p),
         UNCHANGED <<submitting, refreshUrl>>,
         newest = p \/ UNCHANGED shown
  PROVE  NewestOK'
<1>1. newest' = newest /\ poll'[p].pc = "idle" /\ \A q \in Polls : q # p => poll'[q] = poll[q]
  BY SettledPoll
<1> QED
  BY <1>1 DEF NewestOK

-----------------------------------------------------------------------------
\* The list, the server and the address stay; a poll may start.
LEMMA ChangeListingPreserves ==
  ASSUME ListInv, NEW l \in Listings, ChangeListing(l)
  PROVE  ListInv'
<1>1. version' = version + 1 /\ version' \in 0 .. MaxChanges /\ listing' = l
  BY ListAssumption DEF ChangeListing, ListInv, PageOK
<1>2. UNCHANGED <<page, url, refreshUrl, chips, shown, submitting, hidden, in_use,
                  pinnedMeetingId, pinned, poll, newest, activeController>>
  BY DEF ChangeListing, address, tooltips, polls
<1>3. PageOK'
  BY <1>1, <1>2 DEF ListInv, PageOK, Content
<1>4. AnswersOK'
  <2> SUFFICES ASSUME NEW p \in Polls, poll[p].pc = "answered"
               PROVE  poll[p].content.filter = poll[p].filter /\ poll[p].content.version <= version'
    BY <1>2 DEF AnswersOK
  <2>1. poll[p].content.version \in 0 .. MaxChanges
    BY DEF ListInv, PollsOK, PollRecord, Content
  <2> QED
    BY <1>1, <2>1 DEF ListInv, AnswersOK, PageOK
<1> QED
  BY <1>2, <1>3, <1>4 DEF ListInv, PinnedTooltipOpen, PollsOK, NewestOK

LEMMA IntervalPreserves ==
  ASSUME ListInv, NEW p \in Polls, Interval(p)
  PROVE  ListInv'
<1>1. /\ StartPoll(p, FALSE, refreshUrl)
      /\ UNCHANGED <<listing, version, page, url, refreshUrl, chips, shown, submitting, hidden,
                     in_use, pinnedMeetingId, pinned>>
  BY DEF Interval, server, address, tooltips
<1>2. refreshUrl' \in Filter /\ refreshUrl' = refreshUrl
  BY <1>1 DEF ListInv, PageOK
<1>3. PollsOK' /\ AnswersOK' /\ NewestOK'
  BY <1>1, <1>2, StartedInvariant DEF ListInv
<1> QED
  BY <1>1, <1>3 DEF ListInv, PageOK, PinnedTooltipOpen

LEMMA ShowPreserves ==
  ASSUME ListInv, NEW p \in Polls, Show(p)
  PROVE  ListInv'
<1>1. /\ StartPoll(p, FALSE, refreshUrl) \/ UNCHANGED polls
      /\ hidden' = FALSE
      /\ UNCHANGED <<listing, version, page, url, refreshUrl, chips, shown, submitting, in_use,
                     pinnedMeetingId, pinned>>
  BY DEF Show, Refresh, server, address, tooltips
<1>2. refreshUrl' \in Filter /\ refreshUrl' = refreshUrl
  BY <1>1 DEF ListInv, PageOK
<1>3. PollsOK' /\ AnswersOK' /\ NewestOK'
  <2>1. CASE StartPoll(p, FALSE, refreshUrl)
    BY <1>1, <1>2, <2>1, StartedInvariant DEF ListInv
  <2>2. CASE UNCHANGED polls
    BY <1>1, <2>2, UnchangedPolls
  <2> QED
    BY <1>1, <2>1, <2>2
<1> QED
  BY <1>1, <1>3 DEF ListInv, PageOK, PinnedTooltipOpen

\* The chip starts a poll for its filter, or a form is being sent.
LEMMA ClickChipPreserves ==
  ASSUME ListInv, NEW p \in Polls, NEW value \in Chips, ClickChip(p, value)
  PROVE  ListInv'
<1>1. /\ url' = [url EXCEPT !.availability = value]
      /\ refreshUrl' = [refreshUrl EXCEPT !.availability = value]
      /\ IF submitting THEN UNCHANGED polls ELSE StartPoll(p, TRUE, refreshUrl')
      /\ RestorePinnedTooltip(None, shown.meetings)
      /\ UNCHANGED <<listing, version, page, chips, shown, submitting, hidden, in_use>>
  BY DEF ClickChip, ChipRefresh, Refresh, MayRefresh, MayStart, server
<1>2. url' \in Filter /\ refreshUrl' \in Filter
  BY <1>1, ListAssumption DEF ListInv, PageOK, Filter
<1>3. PageOK'
  BY <1>1, <1>2 DEF ListInv, PageOK
<1>4. PinnedTooltipOpen'
  BY <1>1, RestoreOpens DEF ListInv, PageOK, Content, PinnedTooltipOpen
<1>5. PollsOK' /\ AnswersOK' /\ NewestOK'
  <2>1. CASE submitting
    BY <1>1, <2>1 DEF ListInv, PollsOK, AnswersOK, NewestOK, polls
  <2>2. CASE ~submitting
    BY <1>1, <1>2, <2>2, StartedInvariant DEF ListInv
  <2> QED
    BY <2>1, <2>2
<1> QED
  BY <1>3, <1>4, <1>5 DEF ListInv

\* The user's other doings leave the polls alone.
LEMMA UserPreserves ==
  ASSUME ListInv, Hide \/ Hover \/ Unpin \/ Submit \/ \E g \in Meetings : Pin(g)
  PROVE  ListInv'
<1>1. UNCHANGED <<listing, version, page, url, refreshUrl, chips, shown>> /\ UNCHANGED polls
  BY DEF Hide, Hover, Unpin, Submit, Pin, server, address
<1>2. submitting' \in BOOLEAN /\ hidden' \in BOOLEAN /\ in_use' \in BOOLEAN
      /\ (submitting => submitting')
  <2>1. submitting \in BOOLEAN /\ hidden \in BOOLEAN /\ in_use \in BOOLEAN
    BY DEF ListInv, PageOK
  <2>2. CASE Hide
    BY <2>1, <2>2 DEF Hide, tooltips
  <2>3. CASE Hover
    BY <2>1, <2>3 DEF Hover
  <2>4. CASE Unpin
    BY <2>1, <2>4 DEF Unpin
  <2>5. CASE Submit
    BY <2>1, <2>5 DEF Submit
  <2>6. CASE \E g \in Meetings : Pin(g)
    BY <2>1, <2>6 DEF Pin
  <2> QED
    BY <2>2, <2>3, <2>4, <2>5, <2>6
<1>3. PageOK'
  BY <1>1, <1>2 DEF ListInv, PageOK
<1>4. PollsOK' /\ AnswersOK' /\ NewestOK'
  BY <1>1, <1>2, UnchangedPolls
<1>5. UNCHANGED <<pinnedMeetingId, pinned>>
      \/ \E w \in Meetings \cup {None} : RestorePinnedTooltip(w, shown.meetings)
  BY DEF Hide, Hover, Unpin, Submit, Pin, tooltips
<1>6. PinnedTooltipOpen'
  <2>1. CASE UNCHANGED <<pinnedMeetingId, pinned>>
    BY <1>1, <2>1 DEF ListInv, PinnedTooltipOpen
  <2>2. CASE \E w \in Meetings \cup {None} : RestorePinnedTooltip(w, shown.meetings)
    BY <1>1, <2>2, RestoreOpens DEF ListInv, PageOK, Content, PinnedTooltipOpen
  <2> QED
    BY <1>5, <2>1, <2>2
<1> QED
  BY <1>3, <1>4, <1>6 DEF ListInv

-----------------------------------------------------------------------------
\* The answer shows the list as it is when it is made.
LEMMA AnswerPreserves ==
  ASSUME ListInv, NEW p \in Polls, Answer(p)
  PROVE  ListInv'
<1> DEFINE content == Rendered(poll[p].filter)
<1>1. UNCHANGED <<listing, version, page, url, refreshUrl, chips, shown, submitting, hidden,
                  in_use, pinnedMeetingId, pinned, newest, activeController>>
  BY DEF Answer, server, address, tooltips
<1>2. poll[p] \in PollRecord /\ poll[p].filter \in Filter /\ poll[p].pc = "sent"
  BY DEF ListInv, PollsOK, PollRecord, Answer
<1>3. content \in Content /\ content.version = version /\ content.filter = poll[p].filter
  BY <1>2, RenderedContent DEF ListInv
<1>4. \/ poll' = [poll EXCEPT ![p] = [@ EXCEPT !.pc = "answered", !.content = content]]
      \/ poll' = [poll EXCEPT ![p] = [@ EXCEPT !.pc = "refused"]]
  BY DEF Answer, Fragment
<1> HIDE DEF content
<1>5. poll' \in [Polls -> PollRecord]
  BY <1>2, <1>3, <1>4 DEF ListInv, PollsOK, PollRecord
<1>6. /\ \A q \in Polls : q # p => poll'[q] = poll[q]
      /\ poll'[p].filter = poll[p].filter /\ poll'[p].pc \in {"answered", "refused"}
      /\ poll'[p].pc = "answered" => poll'[p].content = content
  <2>1. \A q \in Polls : q # p => poll'[q] = poll[q]
    BY <1>4 DEF ListInv, PollsOK
  <2>2. \/ poll'[p] = [poll[p] EXCEPT !.pc = "answered", !.content = content]
        \/ poll'[p] = [poll[p] EXCEPT !.pc = "refused"]
    BY <1>4 DEF ListInv, PollsOK
  <2> QED
    BY <1>2, <2>1, <2>2 DEF PollRecord
<1>7. PollsOK'
  BY <1>1, <1>2, <1>5, <1>6 DEF ListInv, PollsOK
<1>8. AnswersOK'
  BY <1>1, <1>3, <1>6 DEF ListInv, AnswersOK, PageOK
<1>9. NewestOK'
  BY <1>1, <1>2, <1>3, <1>6 DEF ListInv, NewestOK, PageOK
<1> QED
  BY <1>1, <1>7, <1>8, <1>9 DEF ListInv, PageOK, PinnedTooltipOpen

LEMMA LosePreserves ==
  ASSUME ListInv, NEW p \in Polls, Lose(p)
  PROVE  ListInv'
<1>1. /\ Settle(p) /\ poll[p].pc # "idle"
      /\ UNCHANGED <<listing, version, page, url, refreshUrl, chips, shown, submitting, hidden,
                     in_use, pinnedMeetingId, pinned>>
  BY DEF Lose, server, address, tooltips
<1>2. PollsOK' /\ AnswersOK' /\ NewestOK'
  BY <1>1, SettledPoll, SettledAnswers, SettledNewest DEF ListInv
<1> QED
  BY <1>1, <1>2 DEF ListInv, PageOK, PinnedTooltipOpen

LEMMA ReceiveRefusalPreserves ==
  ASSUME ListInv, NEW p \in Polls, ReceiveRefusal(p)
  PROVE  ListInv'
<1>1. /\ Settle(p) /\ poll[p].pc # "idle" /\ page' = "reloading"
      /\ UNCHANGED <<listing, version, url, refreshUrl, chips, shown, submitting, hidden,
                     in_use, pinnedMeetingId, pinned>>
  BY DEF ReceiveRefusal, server, tooltips
<1>2. PollsOK' /\ AnswersOK' /\ NewestOK'
  BY <1>1, SettledPoll, SettledAnswers, SettledNewest DEF ListInv
<1> QED
  BY <1>1, <1>2 DEF ListInv, PageOK, PinnedTooltipOpen

\* The answer replaces the list only if the poll is the newest, and then brings a list
\* that is not older.
LEMMA ReceivePreserves ==
  ASSUME ListInv, NEW p \in Polls, Receive(p)
  PROVE  ListInv'
<1> DEFINE content == poll[p].content
<1>1. /\ Settle(p) /\ poll[p].pc = "answered"
      /\ UNCHANGED <<listing, version, page, url, refreshUrl, chips, submitting, hidden>>
  BY DEF Receive, server, address
<1>2. content \in Content /\ content.version <= version
  BY <1>1 DEF ListInv, PollsOK, PollRecord, AnswersOK
<1>3. PollsOK' /\ AnswersOK'
  BY <1>1, SettledPoll, SettledAnswers DEF ListInv
<1>4. CASE Wanted(p)
  <2>1. /\ newest = p /\ shown' = content
        /\ RestorePinnedTooltip(pinnedMeetingId, content.meetings)
        /\ in_use' = (in_use /\ content.meetings # {})
    BY <1>4 DEF Receive, Wanted, Replace
  <2> HIDE DEF content
  <2>2. PageOK'
    BY <1>1, <1>2, <2>1 DEF ListInv, PageOK
  <2>3. content.meetings \subseteq Meetings
    BY <1>2 DEF Content
  <2>4. PinnedTooltipOpen'
    BY <2>1, <2>3, RestoreOpens DEF PinnedTooltipOpen
  <2>5. NewestOK'
    BY <1>1, <2>1, SettledNewest DEF ListInv
  <2> QED
    BY <1>3, <2>2, <2>4, <2>5 DEF ListInv
<1>5. CASE ~Wanted(p)
  <2>1. UNCHANGED <<shown, in_use, pinnedMeetingId, pinned>>
    BY <1>5 DEF Receive, tooltips
  <2>2. NewestOK'
    BY <1>1, <2>1, SettledNewest DEF ListInv
  <2> QED
    BY <1>1, <1>3, <2>1, <2>2 DEF ListInv, PageOK, PinnedTooltipOpen
<1> QED
  BY <1>4, <1>5

\* A new document starts without polls.
LEMMA LoadPreserves ==
  ASSUME ListInv, NEW f \in Filter, Load(f)
  PROVE  ListInv'
<1>1. /\ submitting' = FALSE /\ hidden' = FALSE /\ in_use' = FALSE
      /\ pinnedMeetingId' = None /\ pinned' = {}
      /\ poll' = [p \in Polls |-> IdlePoll] /\ newest' = None /\ activeController' = None
      /\ listing' = listing /\ version' = version
  BY DEF Load, server
<1>2. /\ page' \in {"left", "open", "reloading"} /\ url' \in Filter /\ refreshUrl' \in Filter
      /\ chips' \in BOOLEAN /\ shown' \in Content /\ shown'.version <= version
  <2>1. CASE listing.admitted
    <3>1. /\ page' = "open" /\ url' = f /\ refreshUrl' = Effective(f)
          /\ chips' = listing.show_availability_filter /\ shown' = Rendered(Effective(f))
      BY <2>1 DEF Load
    <3>2. /\ Rendered(Effective(f)) \in Content /\ Rendered(Effective(f)).version = version
          /\ Effective(f) \in Filter
      BY EffectiveFilter, RenderedContent DEF ListInv
    <3>3. listing.show_availability_filter \in BOOLEAN
      BY ListAssumption DEF ListInv, PageOK
    <3> QED
      BY <3>1, <3>2, <3>3 DEF ListInv, PageOK
  <2>2. CASE ~listing.admitted
    <3>1. /\ page' = "left" /\ url' = NoFilter /\ refreshUrl' = NoFilter
          /\ chips' = FALSE /\ shown' = NoContent
      BY <2>2 DEF Load
    <3>2. page' \in {"left", "open", "reloading"} /\ chips' \in BOOLEAN
      BY <3>1
    <3>3. shown' \in Content /\ shown'.version <= version
      BY <3>1, EmptyContent DEF ListInv, PageOK
    <3> QED
      BY <3>1, <3>2, <3>3, EmptyContent
  <2> QED
    BY <2>1, <2>2
<1>3. PageOK' /\ PinnedTooltipOpen'
  BY <1>1, <1>2 DEF ListInv, PageOK, PinnedTooltipOpen
<1>4. PollsOK' /\ AnswersOK' /\ NewestOK'
  BY <1>1, IdlePollType, ListAssumption DEF PollsOK, AnswersOK, NewestOK
<1> QED
  BY <1>3, <1>4 DEF ListInv

-----------------------------------------------------------------------------
LEMMA InitInv == Init => ListInv
<1> SUFFICES ASSUME Init PROVE ListInv
  OBVIOUS
<1>1. PageOK /\ PinnedTooltipOpen
  <2>1. version \in 0 .. MaxChanges /\ shown.version <= version /\ shown \in Content
    BY EmptyContent, ListAssumption DEF Init
  <2>2. chips \in BOOLEAN /\ submitting \in BOOLEAN /\ hidden \in BOOLEAN /\ in_use \in BOOLEAN
    BY DEF Init
  <2>3. listing \in Listings /\ page = "left" /\ url \in Filter /\ refreshUrl \in Filter
    BY EmptyContent DEF Init
  <2>4. PinnedTooltipOpen
    BY DEF Init, PinnedTooltipOpen
  <2> QED
    BY <2>1, <2>2, <2>3, <2>4 DEF PageOK
<1>2. PollsOK /\ AnswersOK /\ NewestOK
  BY IdlePollType, ListAssumption DEF Init, PollsOK, AnswersOK, NewestOK
<1> QED
  BY <1>1, <1>2 DEF ListInv

LEMMA StepInv == ListInv /\ [Next]_vars => ListInv'
<1> SUFFICES ASSUME ListInv, [Next]_vars PROVE ListInv'
  OBVIOUS
<1>1. CASE UNCHANGED vars
  BY <1>1 DEF vars, server, address, tooltips, polls, ListInv, PageOK, PinnedTooltipOpen,
              PollsOK, AnswersOK, NewestOK
<1>2. ASSUME NEW p \in Polls,
             Interval(p) \/ Show(p) \/ Answer(p) \/ Lose(p) \/ Receive(p) \/ ReceiveRefusal(p)
      PROVE  ListInv'
  BY <1>2, IntervalPreserves, ShowPreserves, AnswerPreserves, LosePreserves, ReceivePreserves,
     ReceiveRefusalPreserves
<1>3. ASSUME NEW p \in Polls, NEW value \in Chips, ClickChip(p, value) PROVE ListInv'
  BY <1>3, ClickChipPreserves
<1>4. CASE \E l \in Listings : ChangeListing(l)
  BY <1>4, ChangeListingPreserves
<1>5. CASE Hide \/ Hover \/ Unpin \/ Submit \/ \E g \in Meetings : Pin(g)
  BY <1>5, UserPreserves
<1>6. CASE (\E f \in Filters : Load(f)) \/ Reload
  BY <1>6, LoadPreserves, ListAssumption DEF Reload, ListInv, PageOK
<1> QED
  BY <1>1, <1>2, <1>3, <1>4, <1>5, <1>6 DEF Next

\* What is shown, what is under way and what the tooltips name belong together.
THEOREM ListInvariant == Spec => []ListInv
  BY InitInv, StepInv, PTL DEF Spec

\* Types, and activeController controls the newest poll or nothing.
THEOREM ListTypes == Spec => []TypeOK
<1>1. ListInv => TypeOK
  BY DEF ListInv, PageOK, PollsOK, TypeOK
<1> QED
  BY <1>1, ListInvariant, PTL

\* restorePinnedTooltip keeps the name and the open tooltip together.
THEOREM ListPinnedTooltip == Spec => []PinnedTooltipOpen
<1>1. ListInv => PinnedTooltipOpen
  BY DEF ListInv
<1> QED
  BY <1>1, ListInvariant, PTL

\* The list is replaced by the newest poll only, when nobody is disturbed.
LEMMA ReplacedByNewest ==
  ASSUME ListInv, Replaced
  PROVE  /\ newest \in Polls /\ poll[newest].pc = "answered"
         /\ poll[newest].filter = refreshUrl
         /\ shown' = poll[newest].content
         /\ shown'.version >= shown.version /\ shown'.filter = refreshUrl
         /\ ~submitting /\ (TooltipInUse => poll[newest].force)
<1>1. PICK p \in Polls : Receive(p)
  BY DEF Replaced
<1>2. Wanted(p)
  BY <1>1 DEF Replaced, Receive
<1>3. /\ newest = p /\ ~submitting /\ (TooltipInUse => poll[p].force)
      /\ poll[p].pc = "answered" /\ shown' = poll[p].content
  BY <1>1, <1>2 DEF Wanted, Receive, Replace
<1> QED
  BY <1>3 DEF ListInv, NewestOK, AnswersOK

\* The list never goes back in time (pages.py, meeting_polling.js).
THEOREM ListNeverBackwards == Spec => NeverBackwards
<1>1. ListInv => [Replaced => shown'.version >= shown.version]_vars
  BY ReplacedByNewest
<1> QED
  BY <1>1, ListInvariant, PTL DEF Spec, NeverBackwards

\* New content is that of the filter chosen last.
THEOREM ListFilterKept == Spec => FilterKept
<1>1. ListInv => [Replaced => shown'.filter = refreshUrl]_vars
  BY ReplacedByNewest
<1> QED
  BY <1>1, ListInvariant, PTL DEF Spec, FilterKept

\* Neither a form nor, except by a chip, a tooltip loses the cards it is in.
THEOREM ListUserNotDisturbed == Spec => UserNotDisturbed
<1>1. ListInv => [Replaced => /\ ~submitting
                              /\ TooltipInUse => newest \in Polls /\ poll[newest].force]_vars
  BY ReplacedByNewest
<1> QED
  BY <1>1, ListInvariant, PTL DEF Spec, UserNotDisturbed
=============================================================================
