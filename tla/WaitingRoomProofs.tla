-------------------------- MODULE WaitingRoomProofs --------------------------
(***************************************************************************)
(* Safety of the window and of the waiting pages, for any number of        *)
(* updates, stops and tabs and without a bound on the clock.               *)
(***************************************************************************)
EXTENDS WaitingRoom, TLAPS

InFlight(u) == update[u].pc \in {"commit", "cache"}

\* What the row held since the start covers everything an update may still put into
\* the cache: the row it loaded, the row as it is, and the value it committed.
SourcesHeld ==
  /\ running => Effective(schedule) \in held
  /\ \A u \in Updates :
       /\ InFlight(u) => running
       /\ update[u].pc = "commit" /\ update[u].loaded # NoRow => update[u].loaded \in held
       /\ update[u].pc = "commit" /\ update[u].loaded # NoRow => schedule # NoRow
       /\ update[u].pc = "cache" =>
            IF u \in WindowUpdates
            THEN \E row \in held : row.opens_at = update[u].opens_at
            ELSE \E row \in held :
                   row.show_host_information = update[u].host_information_visible

WindowInv == WindowTypeOK /\ SourcesHeld /\ CacheWasCommitted

LEMMA NoRowIsNoRow == NoRow \notin Row
  BY WindowAssumption

LEMMA EffectiveRow == ASSUME NEW row \in Row \cup {NoRow} PROVE Effective(row) \in Row
  BY DEF Effective, Row, Immediate

\* The row an update writes: its own value in its own column, or nothing new.
LEMMA WrittenRow ==
  ASSUME WindowTypeOK, NEW u \in Updates, update[u].pc = "commit", ~Conflict(u),
         update[u].loaded # NoRow => schedule # NoRow
  PROVE  /\ Written(u) \in Row
         /\ u \in WindowUpdates =>
              \/ Written(u).opens_at = update[u].opens_at
              \/ /\ update[u].loaded # NoRow /\ update[u].loaded \in Row
                 /\ update[u].opens_at = update[u].loaded.opens_at
         /\ u \notin WindowUpdates =>
              \/ Written(u).show_host_information = update[u].host_information_visible
              \/ /\ update[u].loaded # NoRow /\ update[u].loaded \in Row
                 /\ update[u].host_information_visible
                      = update[u].loaded.show_host_information
<1>1. update[u] \in UpdateRecord
  BY DEF WindowTypeOK
<1>2. update[u].loaded \in Row \cup {NoRow} /\ schedule \in Row \cup {NoRow}
  BY <1>1 DEF WindowTypeOK, UpdateRecord
<1>3. update[u].opens_at \in Nat /\ update[u].host_information_visible \in BOOLEAN
  BY <1>1 DEF UpdateRecord
<1> DEFINE row == IF update[u].loaded = NoRow THEN Effective(NoRow) ELSE schedule
<1>4. row \in Row
  BY <1>2, EffectiveRow
<1> HIDE DEF row
<1>5. /\ [row EXCEPT !.opens_at = update[u].opens_at] \in Row
      /\ [row EXCEPT !.opens_at = update[u].opens_at].opens_at = update[u].opens_at
  BY <1>3, <1>4 DEF Row
<1>6. LET visible == update[u].host_information_visible IN
      /\ [row EXCEPT !.show_host_information = visible] \in Row
      /\ [row EXCEPT !.show_host_information = visible].show_host_information = visible
  BY <1>3, <1>4 DEF Row
<1>7. CASE u \in WindowUpdates
  BY <1>2, <1>4, <1>5, <1>7 DEF Written, row
<1>8. CASE u \notin WindowUpdates
  BY <1>2, <1>4, <1>6, <1>8 DEF Written, row
<1> QED
  BY <1>7, <1>8

\* An update that starts or ends leaves a well-formed record.
LEMMA EndedRecord ==
  ASSUME NEW answer \in UpdateAnswers
  PROVE  [IdleUpdate EXCEPT !.pc = "done", !.answer = answer] \in UpdateRecord
  BY DEF IdleUpdate, UpdateRecord, Immediate, UpdateAnswers

LEMMA WindowInitially == WindowInit => WindowInv
<1> SUFFICES ASSUME WindowInit PROVE WindowInv
  OBVIOUS
<1>1. IdleUpdate \in UpdateRecord /\ IdleUpdate.pc = "idle"
  BY DEF IdleUpdate, UpdateRecord, Immediate
<1>2. schedule \in Row \cup {NoRow}
  BY WindowAssumption DEF WindowInit, Row
<1>3. WindowTypeOK
  BY <1>1, <1>2 DEF WindowInit, WindowTypeOK, Immediate
<1>4. SourcesHeld /\ CacheWasCommitted
  BY <1>1 DEF WindowInit, SourcesHeld, CacheWasCommitted, InFlight
<1> QED
  BY <1>3, <1>4 DEF WindowInv

LEMMA WindowUnchanged == ASSUME WindowInv, UNCHANGED windowVars PROVE WindowInv'
  BY DEF WindowInv, WindowTypeOK, SourcesHeld, CacheWasCommitted, InFlight, windowVars, cache,
         Effective

LEMMA WindowTick == ASSUME WindowInv, Tick PROVE WindowInv'
  BY DEF WindowInv, WindowTypeOK, SourcesHeld, CacheWasCommitted, InFlight, Tick, cache,
         Effective

\* A request is refused, or loads the row, which is held because the process runs.
LEMMA WindowReceived ==
  ASSUME WindowInv, running, NEW u \in Updates, update[u].pc = "idle",
         NEW next \in UpdateRecord, next.pc = "commit", next.loaded = schedule,
         update' = [update EXCEPT ![u] = next],
         UNCHANGED <<schedule, cache, running, now, stops, held>>
  PROVE  WindowInv'
<1>1. update \in [Updates -> UpdateRecord]
  BY DEF WindowInv, WindowTypeOK
<1>2. WindowTypeOK'
  BY <1>1 DEF WindowInv, WindowTypeOK, cache
<1>3. schedule # NoRow => schedule \in held
  BY DEF WindowInv, SourcesHeld, Effective
<1>4. SourcesHeld'
  BY <1>1, <1>3 DEF WindowInv, SourcesHeld, InFlight, Effective
<1>5. CacheWasCommitted'
  BY DEF WindowInv, CacheWasCommitted, cache
<1> QED
  BY <1>2, <1>4, <1>5 DEF WindowInv

LEMMA WindowAnswered ==
  ASSUME WindowInv, NEW u \in Updates, NEW answer \in UpdateAnswers, Answer(u, answer),
         UNCHANGED <<schedule, cache, running, now, stops, held>>
  PROVE  WindowInv'
<1> DEFINE next == [IdleUpdate EXCEPT !.pc = "done", !.answer = answer]
<1>1. next \in UpdateRecord /\ next.pc = "done"
  BY EndedRecord DEF IdleUpdate
<1> HIDE DEF next
<1>2. update' = [update EXCEPT ![u] = next] /\ update \in [Updates -> UpdateRecord]
  BY DEF Answer, next, WindowInv, WindowTypeOK
<1>3. WindowTypeOK'
  BY <1>1, <1>2 DEF WindowInv, WindowTypeOK, cache
<1>4. SourcesHeld'
  BY <1>1, <1>2 DEF WindowInv, SourcesHeld, InFlight, Effective
<1>5. CacheWasCommitted'
  BY DEF WindowInv, CacheWasCommitted, cache
<1> QED
  BY <1>3, <1>4, <1>5 DEF WindowInv

SameParameters(next, u) ==
  /\ next.opens_at = update[u].opens_at
  /\ next.host_information_visible = update[u].host_information_visible

\* The row stays or is written, and is held from then on; an update that still has to
\* set the cache finds its value in what is held.
LEMMA WindowCommitted ==
  ASSUME WindowInv, NEW u \in Updates, update[u].pc = "commit",
         \/ UNCHANGED schedule
         \/ ~Conflict(u) /\ schedule' = Written(u),
         NEW next \in UpdateRecord, next.pc \in {"cache", "done"},
         next.pc = "cache" =>
           SameParameters(next, u) /\ ~Conflict(u) /\ schedule' = Written(u),
         update' = [update EXCEPT ![u] = next],
         held' = held \cup {Effective(schedule')},
         UNCHANGED <<cache, running, now, stops>>
  PROVE  WindowInv'
<1>1. update \in [Updates -> UpdateRecord] /\ schedule \in Row \cup {NoRow}
        /\ held \subseteq Row
  BY DEF WindowInv, WindowTypeOK
<1>2. update[u].loaded # NoRow => schedule # NoRow /\ update[u].loaded \in held
  BY DEF WindowInv, SourcesHeld
<1>3. ~Conflict(u) => Written(u) \in Row
  BY <1>2, WrittenRow DEF WindowInv
<1>4. schedule' \in Row \cup {NoRow} /\ (schedule # NoRow => schedule' # NoRow)
  BY <1>1, <1>3, NoRowIsNoRow
<1>5. Effective(schedule') \in Row
  BY <1>4, EffectiveRow
<1>7. WindowTypeOK'
  BY <1>1, <1>4, <1>5 DEF WindowInv, WindowTypeOK, cache
<1>8. next.pc = "cache" =>
        IF u \in WindowUpdates
        THEN \E row \in held' : row.opens_at = next.opens_at
        ELSE \E row \in held' :
               row.show_host_information = next.host_information_visible
  <2> SUFFICES ASSUME next.pc = "cache"
               PROVE  IF u \in WindowUpdates
                      THEN \E row \in held' : row.opens_at = next.opens_at
                      ELSE \E row \in held' :
               row.show_host_information = next.host_information_visible
    OBVIOUS
  <2>1. schedule' = Written(u) /\ schedule' \in Row /\ SameParameters(next, u)
    BY <1>3
  <2>2. Effective(schedule') = schedule' /\ schedule' \in held'
    BY <2>1, NoRowIsNoRow DEF Effective
  <2>3. CASE u \in WindowUpdates
    BY <1>2, <2>1, <2>2, <2>3, WrittenRow DEF WindowInv, SameParameters
  <2>4. CASE u \notin WindowUpdates
    BY <1>2, <2>1, <2>2, <2>4, WrittenRow DEF WindowInv, SameParameters
  <2> QED
    BY <2>3, <2>4
<1>9. SourcesHeld'
  <2>1. running' => Effective(schedule') \in held'
    OBVIOUS
  <2>2. running
    BY DEF WindowInv, SourcesHeld, InFlight
  <2>3. ASSUME NEW v \in Updates
        PROVE  /\ InFlight(v)' => running'
               /\ (update[v].pc = "commit" /\ update[v].loaded # NoRow
                   => update[v].loaded \in held /\ schedule # NoRow)'
               /\ (update[v].pc = "cache" =>
                    IF v \in WindowUpdates
                    THEN \E row \in held : row.opens_at = update[v].opens_at
                    ELSE \E row \in held :
                           row.show_host_information = update[v].host_information_visible)'
    <3>1. CASE v = u
      BY <1>1, <1>8, <2>2, <3>1 DEF cache, InFlight
    <3>2. CASE v # u
      <4>1. update'[v] = update[v]
        BY <1>1, <3>2
      <4> QED
        BY <1>4, <2>2, <4>1 DEF WindowInv, SourcesHeld, InFlight
    <3> QED
      BY <3>1, <3>2
  <2> QED
    BY <2>1, <2>3 DEF SourcesHeld
<1>10. CacheWasCommitted'
  BY DEF WindowInv, CacheWasCommitted, cache
<1> QED
  BY <1>7, <1>9, <1>10 DEF WindowInv

LEMMA WindowCommit == ASSUME WindowInv, NEW u \in Updates, CommitUpdate(u) PROVE WindowInv'
<1>1. update \in [Updates -> UpdateRecord]
  BY DEF WindowInv, WindowTypeOK
<1>2. CASE Conflict(u) /\ Answer(u, "ERROR") /\ UNCHANGED schedule
  <2> DEFINE next == [IdleUpdate EXCEPT !.pc = "done", !.answer = "ERROR"]
  <2>1. next \in UpdateRecord /\ next.pc = "done"
    BY EndedRecord DEF IdleUpdate, UpdateAnswers
  <2>2. update' = [update EXCEPT ![u] = next]
    BY <1>2 DEF Answer
  <2> HIDE DEF next
  <2> QED
    BY <1>2, <2>1, <2>2, WindowCommitted DEF CommitUpdate
<1>3. CASE ~Conflict(u) /\ schedule' = Written(u)
             /\ update' = [update EXCEPT ![u].pc = "cache"]
  <2> DEFINE next == [update[u] EXCEPT !.pc = "cache"]
  <2>1. next \in UpdateRecord /\ next.pc = "cache" /\ SameParameters(next, u)
    BY <1>1 DEF UpdateRecord, SameParameters
  <2>2. update' = [update EXCEPT ![u] = next]
    BY <1>1, <1>3
  <2> HIDE DEF next
  <2> QED
    BY <1>3, <2>1, <2>2, WindowCommitted DEF CommitUpdate
<1> QED
  BY <1>2, <1>3 DEF CommitUpdate

LEMMA WindowFail == ASSUME WindowInv, NEW u \in Updates, FailUpdate(u) PROVE WindowInv'
<1> DEFINE next == [IdleUpdate EXCEPT !.pc = "done", !.answer = "ERROR"]
<1>1. next \in UpdateRecord /\ next.pc = "done"
  BY EndedRecord DEF IdleUpdate, UpdateAnswers
<1>2. update' = [update EXCEPT ![u] = next]
  BY DEF Answer, FailUpdate
<1> HIDE DEF next
<1> QED
  BY <1>1, <1>2, WindowCommitted DEF FailUpdate

LEMMA WindowSetCache == ASSUME WindowInv, NEW u \in Updates, SetCache(u) PROVE WindowInv'
<1> DEFINE next == [IdleUpdate EXCEPT !.pc = "done", !.answer = "SAVED"]
<1>1. next \in UpdateRecord /\ next.pc = "done"
  BY EndedRecord DEF IdleUpdate, UpdateAnswers
<1>2. update' = [update EXCEPT ![u] = next] /\ update \in [Updates -> UpdateRecord]
  BY DEF Answer, SetCache, WindowInv, WindowTypeOK
<1> HIDE DEF next
<1>3. update[u].opens_at \in Nat /\ update[u].host_information_visible \in BOOLEAN
  BY DEF WindowInv, WindowTypeOK, UpdateRecord
<1>4. WindowTypeOK'
  BY <1>1, <1>2, <1>3 DEF SetCache, WindowInv, WindowTypeOK
<1>5. SourcesHeld'
  BY <1>1, <1>2 DEF SetCache, WindowInv, SourcesHeld, InFlight, Effective
<1>6. CacheWasCommitted'
  BY DEF SetCache, WindowInv, SourcesHeld, CacheWasCommitted, InFlight
<1> QED
  BY <1>4, <1>5, <1>6 DEF WindowInv

LEMMA WindowStop == ASSUME WindowInv, Stop PROVE WindowInv'
<1>1. \A u \in Updates : /\ update'[u] \in UpdateRecord
                         /\ update'[u].pc \notin {"commit", "cache"}
  <2> SUFFICES ASSUME NEW u \in Updates
               PROVE  /\ update'[u] \in UpdateRecord
                      /\ update'[u].pc \notin {"commit", "cache"}
    OBVIOUS
  <2>1. [IdleUpdate EXCEPT !.pc = "done", !.answer = "ERROR"] \in UpdateRecord
    BY EndedRecord DEF UpdateAnswers
  <2>2. [IdleUpdate EXCEPT !.pc = "done", !.answer = "ERROR"].pc = "done"
    BY DEF IdleUpdate
  <2> QED
    BY <2>1, <2>2 DEF Stop, WindowInv, WindowTypeOK
<1>2. update' \in [Updates -> UpdateRecord]
  <2> DEFINE next(u) == IF update[u].pc \in {"commit", "cache"}
                        THEN [IdleUpdate EXCEPT !.pc = "done", !.answer = "ERROR"]
                        ELSE update[u]
  <2>1. update' = [u \in Updates |-> next(u)]
    BY DEF Stop
  <2> HIDE DEF next
  <2> QED
    BY <1>1, <2>1
<1>3. /\ schedule' \in Row \cup {NoRow} /\ held' \in SUBSET Row
      /\ running' = FALSE /\ stops' \in Nat /\ now' \in Nat
      /\ opens_at' \in Nat /\ show_host_information' \in BOOLEAN
  <2>1. stops' = stops + 1 /\ stops \in Nat
    BY DEF Stop, WindowInv, WindowTypeOK
  <2>2. stops' \in Nat
    BY <2>1
  <2>3. running' = FALSE /\ show_host_information' = FALSE /\ opens_at' = 0
    BY Zenon DEF Stop, Immediate
  <2>4. UNCHANGED <<schedule, now, held>>
    BY Zenon DEF Stop
  <2>5. schedule' \in Row \cup {NoRow} /\ held' \in SUBSET Row /\ now' \in Nat
    BY <2>4 DEF WindowInv, WindowTypeOK
  <2> QED
    BY <2>2, <2>3, <2>5
<1>4. WindowTypeOK'
  BY <1>1, <1>2, <1>3 DEF WindowTypeOK
<1>5. SourcesHeld' /\ CacheWasCommitted'
  BY <1>1, <1>3 DEF SourcesHeld, CacheWasCommitted, InFlight
<1> QED
  BY <1>4, <1>5 DEF WindowInv

LEMMA WindowStart == ASSUME WindowInv, Start PROVE WindowInv'
<1>1. Effective(schedule) \in Row
  BY EffectiveRow DEF WindowInv, WindowTypeOK
<1>2. WindowTypeOK'
  BY <1>1 DEF Start, WindowInv, WindowTypeOK, Row
<1>3. \A u \in Updates : ~InFlight(u)
  BY DEF Start, WindowInv, SourcesHeld
<1>4. SourcesHeld' /\ CacheWasCommitted'
  BY <1>3 DEF Start, SourcesHeld, CacheWasCommitted, InFlight, Effective
<1> QED
  BY <1>2, <1>4 DEF WindowInv

LEMMA WindowPreserved == ASSUME WindowInv, WindowStep PROVE WindowInv'
<1>1. ASSUME NEW u \in WindowUpdates, NEW value \in Openings, ReceiveWindowUpdate(u, value)
      PROVE  WindowInv'
  <2>1. u \in Updates /\ value \in Nat
    BY WindowAssumption DEF Updates
  <2>2. CASE value % Grid # 0 /\ Answer(u, "INVALID")
    BY <1>1, <2>1, <2>2, WindowAnswered DEF ReceiveWindowUpdate, UpdateAnswers
  <2>3. CASE value % Grid = 0
    <3> DEFINE next == [update[u] EXCEPT !.pc = "commit", !.opens_at = value,
                                         !.loaded = schedule]
    <3>1. update \in [Updates -> UpdateRecord] /\ schedule \in Row \cup {NoRow}
      BY DEF WindowInv, WindowTypeOK
    <3>2. next \in UpdateRecord /\ next.pc = "commit" /\ next.loaded = schedule
      BY <2>1, <3>1 DEF UpdateRecord
    <3>3. CASE update' = [update EXCEPT ![u] = next]
      <4> HIDE DEF next
      <4> QED
        BY <1>1, <2>1, <3>2, <3>3, WindowReceived DEF ReceiveWindowUpdate
    <3> QED
      BY <1>1, <2>1, <2>2, <2>3, <3>1, <3>3 DEF ReceiveWindowUpdate
  <2> QED
    BY <1>1, <2>2, <2>3 DEF ReceiveWindowUpdate
<1>2. ASSUME NEW u \in VisibilityUpdates, NEW value \in BOOLEAN,
             ReceiveVisibilityUpdate(u, value)
      PROVE  WindowInv'
  <2>1. u \in Updates /\ u \notin WindowUpdates
    BY WindowAssumption DEF Updates
  <2> DEFINE next == [update[u] EXCEPT !.pc = "commit", !.host_information_visible = value,
                                       !.loaded = schedule]
  <2>2. update \in [Updates -> UpdateRecord] /\ schedule \in Row \cup {NoRow}
    BY DEF WindowInv, WindowTypeOK
  <2>3. next \in UpdateRecord /\ next.pc = "commit" /\ next.loaded = schedule
    BY <2>1, <2>2 DEF UpdateRecord
  <2>4. update' = [update EXCEPT ![u] = next]
    BY <1>2, <2>1, <2>2 DEF ReceiveVisibilityUpdate
  <2> HIDE DEF next
  <2> QED
    BY <1>2, <2>1, <2>3, <2>4, WindowReceived DEF ReceiveVisibilityUpdate
<1> QED
  BY <1>1, <1>2, WindowCommit, WindowFail, WindowSetCache, WindowStop, WindowStart
     DEF WindowStep

\* What Written changes in a row that exists is the update's own column.
LEMMA OwnColumn ==
  ASSUME WindowInv, NEW u \in Updates, update[u].pc = "commit", ~Conflict(u),
         schedule # NoRow
  PROVE  /\ Written(u) # NoRow
         /\ u \in WindowUpdates =>
              Written(u).show_host_information = schedule.show_host_information
         /\ u \notin WindowUpdates => Written(u).opens_at = schedule.opens_at
<1>1. schedule \in Row /\ update[u].loaded # NoRow
  BY DEF WindowInv, WindowTypeOK, Conflict
<1>2. Written(u) \in Row
  BY <1>1, WrittenRow DEF WindowInv
<1>3. \A value : [schedule EXCEPT !.opens_at = value].show_host_information
                  = schedule.show_host_information
  BY <1>1 DEF Row
<1>4. \A value : [schedule EXCEPT !.show_host_information = value].opens_at
                  = schedule.opens_at
  BY <1>1 DEF Row
<1> QED
  BY <1>1, <1>2, <1>3, <1>4, NoRowIsNoRow DEF Written

\* The body of ColumnsIndependent.
ColumnsStep ==
  schedule # NoRow /\ schedule' # schedule =>
    /\ schedule' # NoRow
    /\ schedule'.opens_at # schedule.opens_at =>
         \E u \in WindowUpdates : update[u].pc = "commit" /\ update'[u].pc # "commit"
    /\ schedule'.show_host_information # schedule.show_host_information =>
         \E u \in VisibilityUpdates : update[u].pc = "commit" /\ update'[u].pc # "commit"

LEMMA ColumnsWritten ==
  ASSUME WindowInv, NEW u \in Updates, update[u].pc = "commit", ~Conflict(u),
         schedule' = Written(u), update'[u].pc # "commit"
  PROVE  ColumnsStep
<1>1. u \in WindowUpdates \/ u \in VisibilityUpdates
  BY DEF Updates
<1> QED
  BY <1>1, OwnColumn DEF ColumnsStep

LEMMA ColumnsPreserved == ASSUME WindowInv, WindowStep PROVE ColumnsStep
<1>1. update \in [Updates -> UpdateRecord]
  BY DEF WindowInv, WindowTypeOK
<1>2. \A u \in Updates, answer \in UpdateAnswers : Answer(u, answer) => update'[u].pc # "commit"
  BY <1>1 DEF Answer, IdleUpdate
<1>3. ASSUME NEW u \in Updates, CommitUpdate(u) PROVE ColumnsStep
  <2>1. CASE UNCHANGED schedule
    BY <2>1 DEF ColumnsStep
  <2>2. CASE ~Conflict(u) /\ schedule' = Written(u)
             /\ update' = [update EXCEPT ![u].pc = "cache"]
    <3>1. update'[u].pc # "commit"
      BY <1>1, <2>2 DEF UpdateRecord
    <3> QED
      BY <1>3, <2>2, <3>1, ColumnsWritten DEF CommitUpdate
  <2> QED
    BY <1>3, <2>1, <2>2 DEF CommitUpdate
<1>4. ASSUME NEW u \in Updates, FailUpdate(u) PROVE ColumnsStep
  <2>1. CASE UNCHANGED schedule
    BY <2>1 DEF ColumnsStep
  <2>2. CASE ~Conflict(u) /\ schedule' = Written(u)
    BY <1>2, <1>4, <2>2, ColumnsWritten DEF FailUpdate, UpdateAnswers
  <2> QED
    BY <1>4, <2>1, <2>2 DEF FailUpdate
<1>5. ASSUME UNCHANGED schedule PROVE ColumnsStep
  BY <1>5 DEF ColumnsStep
<1> QED
  BY <1>3, <1>4, <1>5
     DEF WindowStep, ReceiveWindowUpdate, ReceiveVisibilityUpdate, SetCache, Stop, Start

-----------------------------------------------------------------------------
TabsTyped == tab \in [Clients -> TabRecord]

\* The invariant of the whole: the window's, and what the tabs show and sleep.
IInv == WindowInv /\ TabsTyped /\ NoWaitBeyondDeadline

LEMMA QuotientIsNat == ASSUME NEW a \in Nat, NEW b \in Nat \ {0} PROVE a \div b \in Nat
  OBVIOUS

LEMMA RemainingIsNat == ASSUME WindowInv PROVE RemainingMs \in Nat
<1>1. now \in Nat /\ opens_at \in Nat
  BY DEF WindowInv, WindowTypeOK
<1>2. CASE now >= opens_at
  BY <1>2 DEF RemainingMs, RegistrationIsOpen
<1>3. CASE ~(now >= opens_at)
  <2>1. opens_at - now \in Nat
    BY <1>1, <1>3
  <2> QED
    BY <1>3, <2>1, QuotientIsNat, WaitingAssumption DEF RemainingMs, RegistrationIsOpen
<1> QED
  BY <1>2, <1>3

LEMMA ProductIsNat == ASSUME NEW a \in Nat, NEW b \in Nat PROVE a * b \in Nat
  OBVIOUS

LEMMA DeadlineIsNat ==
  ASSUME now \in Nat, NEW remaining \in Nat PROVE DeadlineIn(remaining) \in Nat
<1>1. TicksPerMs \in Nat
  BY WaitingAssumption
<1>2. TicksPerMs * remaining \in Nat
  BY <1>1, ProductIsNat
<1> QED
  BY <1>2 DEF DeadlineIn

\* A tab in the invariant: well-formed, and not asleep past its deadline.
SoundTab(t) == t \in TabRecord /\ (t.page = "waiting" => t.timer <= t.deadline)

LEMMA AtIsSound == ASSUME NEW page \in Pages, page # "waiting" PROVE SoundTab(At(page))
  BY DEF SoundTab, At, Blank, TabRecord, Pages

LEMMA RedirectIsSound ==
  ASSUME now \in Nat, NEW t \in TabRecord, NEW deadline \in Nat
  PROVE  SoundTab(ScheduleRedirect(t, deadline))
<1>1. CASE deadline <= now
  BY <1>1, AtIsSound DEF ScheduleRedirect, Pages
<1>2. CASE ~(deadline <= now)
  <2>1. Timer(deadline) \in Nat /\ Timer(deadline) <= deadline
    BY <1>2, WaitingAssumption DEF Timer
  <2> DEFINE t1 == [t EXCEPT !.page = "waiting", !.deadline = deadline,
                             !.timer = Timer(deadline)]
  <2>2. t1 \in TabRecord /\ t1.timer = Timer(deadline) /\ t1.deadline = deadline
    BY <2>1 DEF TabRecord, Pages
  <2> HIDE DEF t1
  <2>3. ScheduleRedirect(t, deadline) = t1
    BY <1>2 DEF ScheduleRedirect, t1
  <2> QED
    BY <2>1, <2>2, <2>3 DEF SoundTab
<1> QED
  BY <1>1, <1>2

\* A step of one tab that leaves it sound leaves all sound.
LEMMA TabStep ==
  ASSUME IInv, NEW c \in Clients, NEW t, SoundTab(t), tab' = [tab EXCEPT ![c] = t],
         UNCHANGED windowVars
  PROVE  IInv'
<1>1. tab \in [Clients -> TabRecord]
  BY DEF IInv, TabsTyped
<1>2. WindowInv'
  BY WindowUnchanged DEF IInv
<1>3. TabsTyped'
  BY <1>1 DEF TabsTyped, SoundTab
<1>4. NoWaitBeyondDeadline'
  BY <1>1 DEF IInv, NoWaitBeyondDeadline, SoundTab
<1> QED
  BY <1>2, <1>3, <1>4 DEF IInv

LEMMA TabsPreserved == ASSUME IInv, NEW c \in Clients, ClientStep(c) PROVE IInv'
<1>1. /\ tab \in [Clients -> TabRecord] /\ tab[c] \in TabRecord /\ now \in Nat
      /\ tab[c].page = "waiting" => tab[c].timer <= tab[c].deadline
  BY DEF IInv, TabsTyped, NoWaitBeyondDeadline, WindowInv, WindowTypeOK
<1>2. Blank \in TabRecord
  BY DEF Blank, TabRecord, Pages
<1>3. /\ tab[c].remaining_ms \in Nat /\ tab[c].deadline \in Nat /\ tab[c].timer \in Nat
      /\ tab[c].page \in Pages /\ tab[c].open \in BOOLEAN
  BY <1>1 DEF TabRecord
<1>4. RemainingMs \in Nat
  BY RemainingIsNat DEF IInv
<1>5. ASSUME NEW page \in Pages, page # "waiting", Go(c, page), UNCHANGED windowVars
      PROVE  IInv'
  BY <1>5, AtIsSound, TabStep DEF Go
<1>6. DeadlineIn(tab[c].remaining_ms) \in Nat
  BY <1>1, <1>3, DeadlineIsNat
<1>7. CASE Login(c)
  BY <1>5, <1>7 DEF Login, Pages
<1>8. CASE GetMeetings(c) \/ FailNavigation(c)
  BY <1>5, <1>8 DEF GetMeetings, FailNavigation, Pages
<1>9. CASE Reload(c)
  BY <1>5, <1>9 DEF Reload, Pages
<1>10. CASE GetWaiting(c)
  <2> DEFINE t == [At("rendered") EXCEPT !.remaining_ms = RemainingMs]
  <2>1. CASE tab' = [tab EXCEPT ![c] = t]
    <3>1. t \in TabRecord /\ t.page = "rendered"
      BY <1>4 DEF At, Blank, TabRecord, Pages
    <3>2. SoundTab(t)
      BY <3>1 DEF SoundTab
    <3>3. UNCHANGED windowVars
      BY <1>10 DEF GetWaiting
    <3> HIDE DEF t
    <3> QED
      BY <2>1, <3>2, <3>3, TabStep
  <2>2. CASE Go(c, "away") \/ Go(c, "to_list")
    BY <1>5, <1>10, <2>2 DEF GetWaiting, Pages
  <2> QED
    BY <1>10, <2>1, <2>2 DEF GetWaiting
<1>11. CASE LoadWaiting(c)
  <2>1. tab' = [tab EXCEPT ![c] =
                  ScheduleRedirect(Blank, DeadlineIn(tab[c].remaining_ms))]
    BY <1>1, <1>11 DEF LoadWaiting
  <2>2. SoundTab(ScheduleRedirect(Blank, DeadlineIn(tab[c].remaining_ms)))
    BY <1>1, <1>2, <1>6, RedirectIsSound
  <2> QED
    BY <1>11, <2>1, <2>2, TabStep DEF LoadWaiting
<1>12. CASE Redirect(c)
  <2>1. tab' = [tab EXCEPT ![c] = ScheduleRedirect(tab[c], tab[c].deadline)]
    BY <1>1, <1>12 DEF Redirect
  <2>2. SoundTab(ScheduleRedirect(tab[c], tab[c].deadline))
    BY <1>1, <1>3, RedirectIsSound
  <2> QED
    BY <1>12, <2>1, <2>2, TabStep DEF Redirect
<1>13. CASE AskStatus(c)
  <2> DEFINE t == [tab[c] EXCEPT !.sync = "asked"]
  <2>1. SoundTab(t)
    BY <1>1 DEF SoundTab, TabRecord
  <2>2. tab' = [tab EXCEPT ![c] = t] /\ UNCHANGED windowVars
    BY <1>1, <1>13 DEF AskStatus
  <2> HIDE DEF t
  <2> QED
    BY <2>1, <2>2, TabStep
<1>14. CASE AnswerStatus(c)
  <2> DEFINE t == [tab[c] EXCEPT !.sync = "answered", !.open = RegistrationIsOpen,
                                 !.remaining_ms = RemainingMs]
  <2>1. RegistrationIsOpen \in BOOLEAN
    BY DEF RegistrationIsOpen
  <2>2. SoundTab(t)
    BY <1>1, <1>4, <2>1 DEF SoundTab, TabRecord
  <2>3. tab' = [tab EXCEPT ![c] = t] /\ UNCHANGED windowVars
    BY <1>1, <1>14 DEF AnswerStatus
  <2> HIDE DEF t
  <2> QED
    BY <2>2, <2>3, TabStep
<1>15. CASE ReceiveStatus(c)
  <2> DEFINE t == IF tab[c].open THEN At("to_list")
                  ELSE ScheduleRedirect(Blank, DeadlineIn(tab[c].remaining_ms))
  <2>1. SoundTab(t)
    BY <1>1, <1>2, <1>6, AtIsSound, RedirectIsSound DEF Pages
  <2>2. tab' = [tab EXCEPT ![c] = t] /\ UNCHANGED windowVars
    BY <1>1, <1>15 DEF ReceiveStatus
  <2> HIDE DEF t
  <2> QED
    BY <2>1, <2>2, TabStep
<1>16. CASE FailStatus(c)
  <2> DEFINE t == [tab[c] EXCEPT !.sync = "scheduled", !.open = FALSE, !.remaining_ms = 0]
  <2>1. SoundTab(t)
    BY <1>1 DEF SoundTab, TabRecord
  <2>2. tab' = [tab EXCEPT ![c] = t] /\ UNCHANGED windowVars
    BY <1>1, <1>16 DEF FailStatus
  <2> HIDE DEF t
  <2> QED
    BY <2>1, <2>2, TabStep
<1>17. CASE AccountChanges(c)
  <2>1. UNCHANGED windowVars /\ tab' = tab
    BY <1>17 DEF AccountChanges
  <2>2. UNCHANGED now
    BY <2>1 DEF windowVars
  <2> QED
    BY <2>1, <2>2, WindowUnchanged DEF IInv, TabsTyped, NoWaitBeyondDeadline
<1> QED
  BY <1>7, <1>8, <1>9, <1>10, <1>11, <1>12, <1>13, <1>14, <1>15, <1>16, <1>17 DEF ClientStep

LEMMA Initially == Init => IInv
<1> SUFFICES ASSUME Init PROVE IInv
  OBVIOUS
<1>1. WindowInv
  BY WindowInitially DEF Init
<1>2. Blank \in TabRecord /\ Blank.page = "away"
  BY DEF Blank, TabRecord, Pages
<1>3. TabsTyped /\ NoWaitBeyondDeadline
  BY <1>2 DEF Init, TabsTyped, NoWaitBeyondDeadline
<1> QED
  BY <1>1, <1>3 DEF IInv

LEMMA Preserved == IInv /\ [Next]_vars => IInv'
<1> SUFFICES ASSUME IInv, [Next]_vars PROVE IInv'
  OBVIOUS
<1>1. CASE WindowStep /\ UNCHANGED <<tab, account>>
  BY <1>1, WindowPreserved DEF IInv, TabsTyped, NoWaitBeyondDeadline
<1>2. CASE TimePasses
  BY <1>2, WindowTick DEF TimePasses, IInv, TabsTyped, NoWaitBeyondDeadline
<1>3. CASE \E c \in Clients : ClientStep(c)
  BY <1>3, TabsPreserved
<1>4. CASE UNCHANGED vars
  <2>1. UNCHANGED windowVars /\ UNCHANGED tab
    BY <1>4 DEF vars
  <2> QED
    BY <2>1, WindowUnchanged DEF IInv, TabsTyped, NoWaitBeyondDeadline
<1> QED
  BY <1>1, <1>2, <1>3, <1>4 DEF Next

\* The invariant holds for any number of updates, stops and tabs and any bound MaxNow.
THEOREM WaitingInvariant == Spec => []IInv
  BY Initially, Preserved, PTL DEF Spec

AccountsTyped == account \in [Clients -> Accounts]

LEMMA AccountsKept == AccountsTyped /\ [Next]_vars => AccountsTyped'
<1> SUFFICES ASSUME AccountsTyped, [Next]_vars PROVE AccountsTyped'
  OBVIOUS
<1>1. ASSUME NEW c \in Clients, ClientStep(c) PROVE AccountsTyped'
  <2>1. \/ UNCHANGED account
        \/ \E a \in Accounts : account' = [account EXCEPT ![c] = a]
    BY <1>1 DEF ClientStep, AccountChanges, Login, FailNavigation, GetMeetings, Reload,
       GetWaiting, LoadWaiting, Redirect, AskStatus, AnswerStatus, ReceiveStatus, FailStatus,
       Clear, Accounts, Active
  <2> QED
    BY <2>1 DEF AccountsTyped
<1>2. CASE UNCHANGED account
  BY <1>2 DEF AccountsTyped
<1> QED
  BY <1>1, <1>2 DEF Next, TimePasses, vars

\* The types of the window and of the tabs: no answer carries a negative time.
THEOREM WaitingTypes == Spec => []TypeOK
<1>1. Init => AccountsTyped
  BY DEF Init, AccountsTyped, Accounts
<1>2. IInv /\ AccountsTyped => TypeOK
  BY DEF IInv, WindowInv, TabsTyped, AccountsTyped, TypeOK
<1> QED
  BY <1>1, <1>2, AccountsKept, WaitingInvariant, PTL DEF Spec

\* The globals never hold a setting that the row did not hold since the start.
THEOREM WindowCacheCommitted == Spec => []CacheWasCommitted
<1>1. IInv => CacheWasCommitted
  BY DEF IInv, WindowInv
<1> QED
  BY <1>1, WaitingInvariant, PTL

\* No tab sleeps past the deadline it shows.
THEOREM WaitingWakesInTime == Spec => []NoWaitBeyondDeadline
<1>1. IInv => NoWaitBeyondDeadline
  BY DEF IInv
<1> QED
  BY <1>1, WaitingInvariant, PTL

\* An update changes its own column only, however updates overlap.
THEOREM WindowColumns == Spec => ColumnsIndependent
<1>1. IInv /\ [Next]_vars => [ColumnsStep]_windowVars
  <2> SUFFICES ASSUME IInv, [Next]_vars PROVE ColumnsStep \/ UNCHANGED windowVars
    OBVIOUS
  <2>1. CASE WindowStep /\ UNCHANGED <<tab, account>>
    BY <2>1, ColumnsPreserved DEF IInv
  <2>2. CASE TimePasses
    BY <2>2 DEF TimePasses, Tick, ColumnsStep
  <2>3. CASE \E c \in Clients : ClientStep(c)
    BY <2>3 DEF ClientStep, AccountChanges, Login, FailNavigation, GetMeetings, Reload, GetWaiting,
           LoadWaiting, Redirect,
                AskStatus, AnswerStatus, ReceiveStatus, FailStatus
  <2>4. CASE UNCHANGED vars
    BY <2>4 DEF vars
  <2> QED
    BY <2>1, <2>2, <2>3, <2>4 DEF Next
<1>2. [][ColumnsStep]_windowVars => ColumnsIndependent
  BY PTL DEF ColumnsIndependent, ColumnsStep
<1> QED
  BY <1>1, <1>2, WaitingInvariant, PTL DEF Spec
-----------------------------------------------------------------------------
\* The deviation OpensAsScheduled shows needs two overlapping updates of the opening:
\* the later commit may be cached first.
OneWindowUpdate == \A u, v \in WindowUpdates : InFlight(u) /\ InFlight(v) => u = v

\* The row may hold what the process never cached: this is reported as an error.
WindowFailed == \E u \in WindowUpdates : update[u].answer = "ERROR"

\* The opening an update loaded or cached is still the row's, and the process has the
\* row's opening unless the only update under way is about to set it.
OpeningFollowsRow ==
  /\ \A u \in WindowUpdates :
       /\ update[u].pc = "commit" /\ update[u].loaded # NoRow
            => update[u].loaded.opens_at = schedule.opens_at
       /\ update[u].pc = "cache" => Effective(schedule).opens_at = update[u].opens_at
  /\ (\A u \in WindowUpdates : update[u].pc # "cache")
       => opens_at = Effective(schedule).opens_at

\* A request is answered once, at its end.
AnsweredIsDone == \A u \in Updates : update[u].answer # "NONE" => update[u].pc = "done"

OpeningInv == AnsweredIsDone /\ (running /\ ~WindowFailed => OpeningFollowsRow)

\* What a step may do to the record of one update.
Begins(u) ==
  /\ update[u].pc = "idle" /\ update'[u].pc = "commit"
  /\ update'[u].answer = update[u].answer /\ update'[u].loaded = schedule

GoesOn(u) ==
  /\ update[u].pc = "commit" /\ update'[u].pc = "cache"
  /\ update'[u].answer = update[u].answer /\ update'[u].opens_at = update[u].opens_at

Ends(u, answer) ==
  update[u].pc # "done" /\ update'[u].pc = "done" /\ update'[u].answer = answer

OthersKept(u) == \A v \in Updates \ {u} : update'[v] = update[v]

LEMMA UpdateBegins ==
  ASSUME WindowInv, NEW u \in Updates, update[u].pc = "idle", NEW value \in Nat,
         \/ update' = [update EXCEPT ![u] =
                         [@ EXCEPT !.pc = "commit", !.opens_at = value, !.loaded = schedule]]
         \/ \E visible \in BOOLEAN :
              update' = [update EXCEPT ![u] =
                           [@ EXCEPT !.pc = "commit", !.host_information_visible = visible,
                                     !.loaded = schedule]]
  PROVE  Begins(u) /\ OthersKept(u)
<1>1. update \in [Updates -> UpdateRecord] /\ update[u] \in UpdateRecord
  BY DEF WindowInv, WindowTypeOK
<1> DEFINE next == [update[u] EXCEPT !.pc = "commit", !.opens_at = value, !.loaded = schedule]
           shown(visible) == [update[u] EXCEPT !.pc = "commit",
                                !.host_information_visible = visible, !.loaded = schedule]
<1>2. next.pc = "commit" /\ next.answer = update[u].answer /\ next.loaded = schedule
  BY <1>1 DEF UpdateRecord
<1>3. \A visible : /\ shown(visible).pc = "commit"
                   /\ shown(visible).answer = update[u].answer
                   /\ shown(visible).loaded = schedule
  BY <1>1 DEF UpdateRecord
<1>4. \/ update' = [update EXCEPT ![u] = next]
      \/ \E visible \in BOOLEAN : update' = [update EXCEPT ![u] = shown(visible)]
  BY <1>1
<1> HIDE DEF next, shown
<1>5. ASSUME NEW begun, begun.pc = "commit", begun.answer = update[u].answer,
             begun.loaded = schedule, update' = [update EXCEPT ![u] = begun]
      PROVE  Begins(u) /\ OthersKept(u)
  BY <1>1, <1>5 DEF Begins, OthersKept
<1>6. CASE update' = [update EXCEPT ![u] = next]
  BY <1>2, <1>5, <1>6
<1>7. ASSUME NEW visible \in BOOLEAN, update' = [update EXCEPT ![u] = shown(visible)]
      PROVE  Begins(u) /\ OthersKept(u)
  BY <1>3, <1>5, <1>7
<1> QED
  BY <1>4, <1>6, <1>7

LEMMA UpdateGoesOn ==
  ASSUME WindowInv, NEW u \in Updates, update[u].pc = "commit",
         update' = [update EXCEPT ![u].pc = "cache"]
  PROVE  GoesOn(u) /\ OthersKept(u)
<1>1. update \in [Updates -> UpdateRecord] /\ update[u] \in UpdateRecord
  BY DEF WindowInv, WindowTypeOK
<1> QED
  BY <1>1 DEF UpdateRecord, GoesOn, OthersKept

LEMMA UpdateEnds ==
  ASSUME WindowInv, NEW u \in Updates, update[u].pc # "done", NEW answer, Answer(u, answer)
  PROVE  Ends(u, answer) /\ OthersKept(u)
<1>1. update \in [Updates -> UpdateRecord]
  BY DEF WindowInv, WindowTypeOK
<1>2. /\ [IdleUpdate EXCEPT !.pc = "done", !.answer = answer].pc = "done"
      /\ [IdleUpdate EXCEPT !.pc = "done", !.answer = answer].answer = answer
  BY DEF IdleUpdate
<1> QED
  BY <1>1, <1>2 DEF Answer, Ends, OthersKept

\* An answered update stays as it is, one that goes on has no answer yet.
LEMMA AnsweredKept ==
  ASSUME WindowInv, AnsweredIsDone, NEW u \in Updates, OthersKept(u),
         Begins(u) \/ GoesOn(u) \/ (\E answer : Ends(u, answer))
  PROVE  AnsweredIsDone' /\ (WindowFailed => WindowFailed')
<1>1. update[u].pc # "done"
  BY DEF Begins, GoesOn, Ends
<1>2. update[u].answer = "NONE"
  BY <1>1 DEF AnsweredIsDone
<1>3. AnsweredIsDone'
  <2> SUFFICES ASSUME NEW v \in Updates, update'[v].answer # "NONE"
               PROVE  update'[v].pc = "done"
    BY DEF AnsweredIsDone
  <2> QED
    BY <1>2 DEF AnsweredIsDone, Begins, GoesOn, Ends, OthersKept
<1>4. WindowFailed => WindowFailed'
  <2> SUFFICES ASSUME NEW v \in WindowUpdates, update[v].answer = "ERROR"
               PROVE  WindowFailed'
    BY DEF WindowFailed
  <2>1. v \in Updates \ {u}
    BY <1>2 DEF Updates
  <2> QED
    BY <2>1 DEF WindowFailed, OthersKept
<1> QED
  BY <1>3, <1>4

\* A visibility update writes the opening that the row had, or that its absence meant.
LEMMA VisibilityKeepsOpening ==
  ASSUME WindowInv, NEW u \in VisibilityUpdates, update[u].pc = "commit", ~Conflict(u),
         schedule' = Written(u)
  PROVE  /\ Effective(schedule').opens_at = Effective(schedule).opens_at
         /\ schedule # NoRow => schedule'.opens_at = schedule.opens_at
<1>1. u \in Updates /\ u \notin WindowUpdates
  BY WindowAssumption DEF Updates
<1>2. update[u].loaded # NoRow => schedule # NoRow
  BY <1>1 DEF WindowInv, SourcesHeld
<1>3. Written(u) \in Row /\ Effective(schedule') = Written(u)
  BY <1>1, <1>2, WrittenRow, NoRowIsNoRow DEF WindowInv, Effective
<1>4. CASE schedule # NoRow
  BY <1>1, <1>3, <1>4, OwnColumn DEF Effective
<1>5. CASE schedule = NoRow
  <2>1. update[u].loaded = NoRow
    BY <1>2, <1>5
  <2>2. Effective(NoRow).opens_at = Immediate
    BY DEF Effective
  <2>3. \A value :
          [Effective(NoRow) EXCEPT !.show_host_information = value].opens_at = Immediate
    BY DEF Effective
  <2> QED
    BY <1>1, <1>3, <1>5, <2>1, <2>2, <2>3 DEF Written
<1> QED
  BY <1>4, <1>5

\* A window update that commits alone leaves the row with the opening it will cache.
LEMMA WindowUpdateWritesOpening ==
  ASSUME WindowInv, OpeningFollowsRow, NEW u \in WindowUpdates, update[u].pc = "commit",
         ~Conflict(u), schedule' = Written(u)
  PROVE  Effective(schedule').opens_at = update[u].opens_at
<1>1. u \in Updates
  BY DEF Updates
<1>2. update[u].loaded # NoRow => schedule # NoRow
  BY <1>1 DEF WindowInv, SourcesHeld
<1>3. Written(u) \in Row /\ Effective(schedule') = Written(u)
  BY <1>1, <1>2, WrittenRow, NoRowIsNoRow DEF WindowInv, Effective
<1>4. CASE update[u].loaded # NoRow /\ update[u].opens_at = update[u].loaded.opens_at
  <2>1. Written(u) = schedule
    BY <1>4 DEF Written
  <2> QED
    BY <1>3, <1>4, <2>1 DEF OpeningFollowsRow
<1>5. CASE ~(update[u].loaded # NoRow /\ update[u].opens_at = update[u].loaded.opens_at)
  <2> DEFINE row == IF update[u].loaded = NoRow THEN Effective(NoRow) ELSE schedule
  <2>1. schedule \in Row \cup {NoRow}
    BY DEF WindowInv, WindowTypeOK
  <2>2. row \in Row
    BY <1>2, <2>1, EffectiveRow
  <2>3. Written(u) = [row EXCEPT !.opens_at = update[u].opens_at]
    BY <1>5 DEF Written
  <2> HIDE DEF row
  <2>4. [row EXCEPT !.opens_at = update[u].opens_at].opens_at = update[u].opens_at
    BY <2>2 DEF Row
  <2> QED
    BY <1>3, <2>3, <2>4
<1> QED
  BY <1>4, <1>5

\* A failed step of a visibility update, and a step of one before its cache.
LEMMA OpeningUndisturbed ==
  ASSUME WindowInv, OpeningInv, NEW u \in VisibilityUpdates, OthersKept(u),
         AnsweredIsDone', UNCHANGED <<opens_at, running>>,
         \/ UNCHANGED schedule
         \/ update[u].pc = "commit" /\ ~Conflict(u) /\ schedule' = Written(u)
  PROVE  OpeningInv'
<1>1. \A v \in WindowUpdates : v \in Updates /\ update'[v] = update[v]
  BY WindowAssumption DEF OthersKept, Updates
<1>2. WindowFailed' <=> WindowFailed
  BY <1>1 DEF WindowFailed
<1>3. /\ Effective(schedule').opens_at = Effective(schedule).opens_at
      /\ schedule # NoRow => schedule'.opens_at = schedule.opens_at
  BY VisibilityKeepsOpening DEF Effective
<1>4. \A v \in WindowUpdates :
        update[v].pc = "commit" /\ update[v].loaded # NoRow => schedule # NoRow
  BY <1>1 DEF WindowInv, SourcesHeld
<1>5. OpeningFollowsRow => OpeningFollowsRow'
  BY <1>1, <1>3, <1>4 DEF OpeningFollowsRow
<1> QED
  BY <1>2, <1>5 DEF OpeningInv

\* A window update that fails leaves nothing to show.
LEMMA FailedWindowUpdate ==
  ASSUME NEW u \in WindowUpdates, AnsweredIsDone', Ends(u, "ERROR") PROVE OpeningInv'
BY DEF OpeningInv, WindowFailed, Ends

LEMMA OpeningReceived ==
  ASSUME WindowInv, OpeningInv, NEW u \in WindowUpdates, NEW value \in Openings,
         ReceiveWindowUpdate(u, value)
  PROVE  OpeningInv'
<1>1. u \in Updates /\ value \in Nat /\ update[u].pc = "idle" /\ running
  BY WindowAssumption DEF Updates, ReceiveWindowUpdate
<1>2. OthersKept(u) /\ (Begins(u) \/ Ends(u, "INVALID"))
  BY <1>1, UpdateBegins, UpdateEnds DEF ReceiveWindowUpdate
<1>3. AnsweredIsDone' /\ (WindowFailed => WindowFailed')
  BY <1>1, <1>2, AnsweredKept DEF OpeningInv
<1>4. UNCHANGED <<schedule, opens_at>>
  BY DEF ReceiveWindowUpdate, cache
<1>5. OpeningFollowsRow => OpeningFollowsRow'
  <2> SUFFICES ASSUME OpeningFollowsRow PROVE OpeningFollowsRow'
    OBVIOUS
  <2>1. \A v \in WindowUpdates : v # u => update'[v] = update[v]
    BY <1>2 DEF OthersKept, Updates
  <2>2. update[u].pc # "cache" /\ update'[u].pc # "cache"
    BY <1>1, <1>2 DEF Begins, Ends
  <2>3. update'[u].pc = "commit" => update'[u].loaded = schedule
    BY <1>2 DEF Begins, Ends
  <2>4. Effective(schedule') = Effective(schedule)
    BY <1>4
  <2>5. ASSUME NEW v \in WindowUpdates
        PROVE  /\ update'[v].pc = "commit" /\ update'[v].loaded # NoRow
                    => update'[v].loaded.opens_at = schedule'.opens_at
               /\ update'[v].pc = "cache"
                    => Effective(schedule').opens_at = update'[v].opens_at
    BY <1>4, <2>1, <2>2, <2>3, <2>4 DEF OpeningFollowsRow
  <2>6. (\A v \in WindowUpdates : update'[v].pc # "cache")
          => opens_at' = Effective(schedule').opens_at
    BY <1>4, <2>1, <2>2, <2>4 DEF OpeningFollowsRow
  <2> QED
    BY <2>5, <2>6 DEF OpeningFollowsRow
<1> QED
  BY <1>1, <1>3, <1>5 DEF OpeningInv

LEMMA OpeningCommitted ==
  ASSUME WindowInv, OpeningInv, OneWindowUpdate, NEW u \in WindowUpdates, CommitUpdate(u)
  PROVE  OpeningInv'
<1>1. u \in Updates /\ update[u].pc = "commit"
  BY DEF Updates, CommitUpdate
<1>2. CASE Answer(u, "ERROR")
  <2>1. Ends(u, "ERROR") /\ OthersKept(u)
    BY <1>1, <1>2, UpdateEnds
  <2>2. AnsweredIsDone'
    BY <1>1, <2>1, AnsweredKept DEF OpeningInv
  <2> QED
    BY <2>1, <2>2, FailedWindowUpdate
<1>3. CASE ~Conflict(u) /\ schedule' = Written(u)
             /\ update' = [update EXCEPT ![u].pc = "cache"]
  <2>1. GoesOn(u) /\ OthersKept(u)
    BY <1>1, <1>3, UpdateGoesOn
  <2>2. AnsweredIsDone' /\ (WindowFailed => WindowFailed')
    BY <1>1, <2>1, AnsweredKept DEF OpeningInv
  <2>3. UNCHANGED <<opens_at, running>>
    BY DEF CommitUpdate, cache
  <2>4. OpeningFollowsRow => OpeningFollowsRow'
    <3> SUFFICES ASSUME OpeningFollowsRow PROVE OpeningFollowsRow'
      OBVIOUS
    <3>1. Effective(schedule').opens_at = update'[u].opens_at
      BY <1>1, <1>3, <2>1, WindowUpdateWritesOpening DEF GoesOn
    <3>2. \A v \in WindowUpdates : v # u =>
            update'[v] = update[v] /\ update[v].pc \notin {"commit", "cache"}
      BY <1>1, <2>1 DEF OneWindowUpdate, InFlight, OthersKept, Updates
    <3>3. update'[u].pc = "cache"
      BY <2>1 DEF GoesOn
    <3> QED
      BY <3>1, <3>2, <3>3 DEF OpeningFollowsRow
  <2> QED
    BY <2>2, <2>3, <2>4 DEF OpeningInv
<1> QED
  BY <1>2, <1>3 DEF CommitUpdate

LEMMA OpeningCached ==
  ASSUME WindowInv, OpeningInv, OneWindowUpdate, NEW u \in WindowUpdates, SetCache(u)
  PROVE  OpeningInv'
<1>1. u \in Updates /\ update[u].pc = "cache"
  BY DEF Updates, SetCache
<1>2. Ends(u, "SAVED") /\ OthersKept(u)
  BY <1>1, UpdateEnds DEF SetCache
<1>3. AnsweredIsDone' /\ (WindowFailed => WindowFailed')
  BY <1>1, <1>2, AnsweredKept DEF OpeningInv
<1>4. UNCHANGED <<schedule, running>> /\ opens_at' = update[u].opens_at
  BY DEF SetCache
<1>5. OpeningFollowsRow => OpeningFollowsRow'
  <2> SUFFICES ASSUME OpeningFollowsRow PROVE OpeningFollowsRow'
    OBVIOUS
  <2>1. \A v \in WindowUpdates : update'[v].pc \notin {"commit", "cache"}
    BY <1>1, <1>2 DEF OneWindowUpdate, InFlight, OthersKept, Updates, Ends
  <2>2. opens_at' = Effective(schedule').opens_at
    BY <1>1, <1>4 DEF OpeningFollowsRow
  <2> QED
    BY <2>1, <2>2 DEF OpeningFollowsRow
<1> QED
  BY <1>3, <1>4, <1>5 DEF OpeningInv

LEMMA OpeningStopped == ASSUME WindowInv, OpeningInv, Stop PROVE OpeningInv'
<1>1. \A u \in Updates : update'[u].answer # "NONE" => update'[u].pc = "done"
  <2> SUFFICES ASSUME NEW u \in Updates, update'[u].answer # "NONE"
               PROVE  update'[u].pc = "done"
    OBVIOUS
  <2>1. [IdleUpdate EXCEPT !.pc = "done", !.answer = "ERROR"].pc = "done"
    BY DEF IdleUpdate
  <2> QED
    BY <2>1 DEF Stop, OpeningInv, AnsweredIsDone
<1> QED
  BY <1>1 DEF Stop, OpeningInv, AnsweredIsDone

LEMMA OpeningStarted == ASSUME WindowInv, OpeningInv, Start PROVE OpeningInv'
<1>1. \A u \in Updates : update'[u] = update[u] /\ update[u].pc \notin {"commit", "cache"}
  BY DEF Start, WindowInv, SourcesHeld, InFlight
<1>2. AnsweredIsDone'
  BY <1>1 DEF OpeningInv, AnsweredIsDone
<1>3. opens_at' = Effective(schedule').opens_at
  BY DEF Start
<1> QED
  BY <1>1, <1>2, <1>3 DEF OpeningInv, OpeningFollowsRow, Updates

LEMMA VisibilityStep ==
  ASSUME WindowInv, OpeningInv, NEW u \in VisibilityUpdates,
         \/ \E value \in BOOLEAN : ReceiveVisibilityUpdate(u, value)
         \/ CommitUpdate(u) \/ FailUpdate(u) \/ SetCache(u)
  PROVE  OpeningInv'
<1>1. u \in Updates /\ u \notin WindowUpdates
  BY WindowAssumption DEF Updates
<1>2. UNCHANGED <<opens_at, running>>
  BY <1>1 DEF ReceiveVisibilityUpdate, CommitUpdate, FailUpdate, SetCache, cache
<1>3. OthersKept(u) /\ (Begins(u) \/ GoesOn(u) \/ (\E answer : Ends(u, answer)))
  <2>1. CASE \E value \in BOOLEAN : ReceiveVisibilityUpdate(u, value)
    BY <1>1, <2>1, UpdateBegins DEF ReceiveVisibilityUpdate
  <2>2. CASE CommitUpdate(u)
    BY <1>1, <2>2, UpdateGoesOn, UpdateEnds DEF CommitUpdate
  <2>3. CASE FailUpdate(u)
    BY <1>1, <2>3, UpdateEnds DEF FailUpdate
  <2>4. CASE SetCache(u)
    BY <1>1, <2>4, UpdateEnds DEF SetCache
  <2> QED
    BY <2>1, <2>2, <2>3, <2>4
<1>4. AnsweredIsDone'
  BY <1>1, <1>3, AnsweredKept DEF OpeningInv
<1>5. \/ UNCHANGED schedule
      \/ update[u].pc = "commit" /\ ~Conflict(u) /\ schedule' = Written(u)
  BY DEF ReceiveVisibilityUpdate, CommitUpdate, FailUpdate, SetCache
<1> QED
  BY <1>2, <1>3, <1>4, <1>5, OpeningUndisturbed

LEMMA OpeningPreserved ==
  ASSUME WindowInv, OpeningInv, OneWindowUpdate, WindowStep PROVE OpeningInv'
<1>1. ASSUME NEW u \in WindowUpdates, FailUpdate(u) PROVE OpeningInv'
  <2>1. u \in Updates /\ update[u].pc = "commit"
    BY <1>1 DEF Updates, FailUpdate
  <2>2. Ends(u, "ERROR") /\ OthersKept(u)
    BY <1>1, <2>1, UpdateEnds DEF FailUpdate
  <2>3. AnsweredIsDone'
    BY <2>1, <2>2, AnsweredKept DEF OpeningInv
  <2> QED
    BY <2>2, <2>3, FailedWindowUpdate
<1> QED
  BY <1>1, OpeningReceived, OpeningCommitted, OpeningCached, OpeningStopped, OpeningStarted,
     VisibilityStep DEF WindowStep, Updates

\* As long as no two updates of the opening overlap, a process that admits anyone is past
\* the opening in the row once every update was saved.
THEOREM WindowOpensAsScheduled == Spec /\ []OneWindowUpdate => []OpensAsScheduled
<1>1. Init => OpeningInv
  <2> SUFFICES ASSUME Init PROVE OpeningInv
    OBVIOUS
  <2>1. ~running /\ \A u \in Updates : update[u].answer = "NONE"
    BY DEF Init, WindowInit, IdleUpdate
  <2> QED
    BY <2>1 DEF OpeningInv, AnsweredIsDone
<1>2. IInv /\ OneWindowUpdate /\ OpeningInv /\ [Next]_vars => OpeningInv'
  <2> SUFFICES ASSUME IInv, OneWindowUpdate, OpeningInv, [Next]_vars PROVE OpeningInv'
    OBVIOUS
  <2>1. CASE WindowStep
    BY <2>1, OpeningPreserved DEF IInv
  <2>2. CASE UNCHANGED <<schedule, opens_at, running, update>>
    BY <2>2 DEF OpeningInv, AnsweredIsDone, WindowFailed, OpeningFollowsRow, Effective
  <2>3. UNCHANGED windowVars => UNCHANGED <<schedule, opens_at, running, update>>
    BY DEF windowVars, cache
  <2>4. CASE TimePasses
    BY <2>2, <2>4 DEF TimePasses, Tick, cache
  <2>5. CASE \E c \in Clients : ClientStep(c)
    BY <2>2, <2>3, <2>5
       DEF ClientStep, AccountChanges, Login, FailNavigation, GetMeetings, Reload, GetWaiting,
           LoadWaiting, Redirect,
           AskStatus, AnswerStatus, ReceiveStatus, FailStatus
  <2>6. CASE UNCHANGED vars
    BY <2>2, <2>3, <2>6 DEF vars
  <2> QED
    BY <2>1, <2>4, <2>5, <2>6 DEF Next
<1>3. IInv /\ OpeningInv => OpensAsScheduled
  <2> SUFFICES ASSUME IInv, OpeningInv, running, RegistrationIsOpen,
                      \A u \in Updates : update[u].pc = "idle" \/ update[u].answer = "SAVED"
               PROVE  now >= Effective(schedule).opens_at
    BY DEF OpensAsScheduled
  <2>1. \A u \in Updates : update[u].pc # "cache"
    BY DEF OpeningInv, AnsweredIsDone
  <2>2. ~WindowFailed
    <3>1. \A u \in WindowUpdates : u \in Updates
      BY DEF Updates
    <3> QED
      BY <3>1 DEF WindowFailed, OpeningInv, AnsweredIsDone
  <2>3. opens_at = Effective(schedule).opens_at
    BY <2>1, <2>2 DEF OpeningInv, OpeningFollowsRow, Updates
  <2> QED
    BY <2>3 DEF RegistrationIsOpen
<1> QED
  BY <1>1, <1>2, <1>3, WaitingInvariant, PTL DEF Spec
=============================================================================
