------------------------- MODULE RegistrationWindow -------------------------
(***************************************************************************)
(* app/services/registration_window.py and the lifespan of app/main.py:    *)
(* the row of registration_schedule, the two module globals that every     *)
(* request reads instead of it, and the updates of admin.py that write     *)
(* first the row and then the globals.  There is one server process.       *)
(*                                                                         *)
(* Time is counted in ticks finer than the milliseconds the server sends.  *)
(***************************************************************************)
EXTENDS Integers

CONSTANTS
  WindowUpdates,      \* POST /admin/registration-settings
  VisibilityUpdates,  \* POST /admin/registration-settings/host-visibility
  Openings,           \* what the form may ask for
  Grid,               \* the form's ten minutes, in ticks
  MaxNow,             \* bound: the clock stops here
  MaxStops,           \* bound: how often the process stops
  NoRow               \* registration_schedule is empty, nothing was loaded

\* "Immediately": an opening that every clock has passed, Python's None.
Immediate == 0

Updates == WindowUpdates \cup VisibilityUpdates

Row == [opens_at : Nat, show_host_information : BOOLEAN]

ASSUME WindowAssumption ==
  /\ WindowUpdates \cap VisibilityUpdates = {}
  /\ Openings \subseteq Nat /\ Grid \in Nat \ {0}
  /\ MaxNow \in Nat /\ MaxStops \in Nat
  /\ NoRow \notin Row

VARIABLES
  schedule,               \* the row of registration_schedule
  opens_at,               \* _opens_at
  show_host_information,  \* _show_host_information
  running,                \* the process serves requests
  update,                 \* locals of the two update functions
  now,                    \* the clock of server and browsers
  stops,                  \* how often the process stopped
  held                    \* history: what the row held since the process started

cache == <<opens_at, show_host_information>>
windowVars == <<schedule, cache, running, update, now, stops, held>>

-----------------------------------------------------------------------------
RegistrationIsOpen == now >= opens_at

\* What load_registration_window makes of the row.
Effective(row) ==
  IF row = NoRow THEN [opens_at |-> Immediate, show_host_information |-> FALSE] ELSE row

UpdateAnswers == {"SAVED", "INVALID", "ERROR"}

UpdateRecord ==
  [pc : {"idle", "commit", "cache", "done"},
   opens_at : Nat, host_information_visible : BOOLEAN,  \* the parameter of its kind
   loaded : Row \cup {NoRow}, answer : UpdateAnswers \cup {"NONE"}]

IdleUpdate ==
  [pc |-> "idle", opens_at |-> Immediate, host_information_visible |-> FALSE,
   loaded |-> NoRow, answer |-> "NONE"]

Answer(u, answer) ==
  update' = [update EXCEPT ![u] = [IdleUpdate EXCEPT !.pc = "done", !.answer = answer]]

\* parse_registration_opening, then db.get of the row.
ReceiveWindowUpdate(u, value) ==
  /\ running /\ update[u].pc = "idle"
  /\ \/ value % Grid # 0 /\ Answer(u, "INVALID")
     \/ /\ value % Grid = 0
        /\ update' = [update EXCEPT ![u] =
                        [@ EXCEPT !.pc = "commit", !.opens_at = value, !.loaded = schedule]]
  /\ UNCHANGED <<schedule, cache, running, now, stops, held>>

ReceiveVisibilityUpdate(u, value) ==
  /\ running /\ update[u].pc = "idle"
  /\ update' = [update EXCEPT ![u] =
                  [@ EXCEPT !.pc = "commit", !.host_information_visible = value,
                            !.loaded = schedule]]
  /\ UNCHANGED <<schedule, cache, running, now, stops, held>>

\* Mutant: UPDATE sets every column to what was loaded.
WrittenAllColumns(u) ==
  LET row == Effective(update[u].loaded) IN
  IF u \in WindowUpdates
  THEN [row EXCEPT !.opens_at = update[u].opens_at]
  ELSE [row EXCEPT !.show_host_information = update[u].host_information_visible]

\* The row after the commit: an INSERT with the default of the other column, or
\* an UPDATE of the one column, if its value is not the loaded one.
Written(u) ==
  LET loaded == update[u].loaded
      visible == update[u].host_information_visible
      row == IF loaded = NoRow THEN Effective(NoRow) ELSE schedule
  IN
  IF u \in WindowUpdates
  THEN IF loaded # NoRow /\ update[u].opens_at = loaded.opens_at
       THEN row ELSE [row EXCEPT !.opens_at = update[u].opens_at]
  ELSE IF loaded # NoRow /\ visible = loaded.show_host_information
       THEN row ELSE [row EXCEPT !.show_host_information = visible]

\* Another update has inserted the only row the primary key admits.
Conflict(u) == update[u].loaded = NoRow /\ schedule # NoRow

\* Mutant: the conflict is swallowed and the value is cached all the same.
CommitUpdateAnyhow(u) ==
  /\ update[u].pc = "commit"
  /\ schedule' = IF Conflict(u) THEN schedule ELSE Written(u)
  /\ held' = held \cup {Effective(schedule')}
  /\ update' = [update EXCEPT ![u].pc = "cache"]
  /\ UNCHANGED <<cache, running, now, stops>>

CommitUpdate(u) ==
  /\ update[u].pc = "commit"
  /\ \/ /\ Conflict(u)
        /\ Answer(u, "ERROR")
        /\ UNCHANGED schedule
     \/ /\ ~Conflict(u)
        /\ schedule' = Written(u)
        /\ update' = [update EXCEPT ![u].pc = "cache"]
  /\ held' = held \cup {Effective(schedule')}
  /\ UNCHANGED <<cache, running, now, stops>>

\* The connection to PostgreSQL breaks before, or after, the commit took effect.
FailUpdate(u) ==
  /\ update[u].pc = "commit"
  /\ Answer(u, "ERROR")
  /\ \/ UNCHANGED schedule
     \/ ~Conflict(u) /\ schedule' = Written(u)
  /\ held' = held \cup {Effective(schedule')}
  /\ UNCHANGED <<cache, running, now, stops>>

\* The coroutine goes on after the commit and sets its global.
SetCache(u) ==
  /\ update[u].pc = "cache"
  /\ IF u \in WindowUpdates
     THEN opens_at' = update[u].opens_at /\ UNCHANGED show_host_information
     ELSE show_host_information' = update[u].host_information_visible /\ UNCHANGED opens_at
  /\ Answer(u, "SAVED")
  /\ UNCHANGED <<schedule, running, now, stops, held>>

\* The process stops in the middle of whatever it did: the globals are lost.
Stop ==
  /\ running /\ stops < MaxStops
  /\ running' = FALSE /\ stops' = stops + 1
  /\ opens_at' = Immediate /\ show_host_information' = FALSE
  /\ update' = [u \in Updates |->
                  IF update[u].pc \in {"commit", "cache"}
                  THEN [IdleUpdate EXCEPT !.pc = "done", !.answer = "ERROR"] ELSE update[u]]
  /\ UNCHANGED <<schedule, now, held>>

\* lifespan: load_registration_window, before the first request is served.
Start ==
  /\ ~running
  /\ running' = TRUE
  /\ opens_at' = Effective(schedule).opens_at
  /\ show_host_information' = Effective(schedule).show_host_information
  /\ held' = {Effective(schedule)}
  /\ UNCHANGED <<schedule, update, now, stops>>

Tick ==
  /\ now < MaxNow
  /\ now' = now + 1
  /\ UNCHANGED <<schedule, cache, running, update, stops, held>>

WindowInit ==
  /\ schedule \in {NoRow} \cup [opens_at : {o \in Openings : o % Grid = 0},
                                show_host_information : {FALSE}]
  /\ opens_at = Immediate /\ show_host_information = FALSE
  /\ running = FALSE
  /\ update = [u \in Updates |-> IdleUpdate]
  /\ now = 1 /\ stops = 0
  /\ held = {}

WindowStep ==
  \/ \E u \in WindowUpdates, value \in Openings : ReceiveWindowUpdate(u, value)
  \/ \E u \in VisibilityUpdates, value \in BOOLEAN : ReceiveVisibilityUpdate(u, value)
  \/ \E u \in Updates : CommitUpdate(u) \/ FailUpdate(u) \/ SetCache(u)
  \/ Stop \/ Start

-----------------------------------------------------------------------------
WindowTypeOK ==
  /\ schedule \in Row \cup {NoRow}
  /\ opens_at \in Nat /\ show_host_information \in BOOLEAN
  /\ running \in BOOLEAN
  /\ update \in [Updates -> UpdateRecord]
  /\ now \in Nat /\ stops \in Nat
  /\ held \in SUBSET Row

\* Whatever overlaps or fails, the process never works with a setting that the row
\* did not hold at some time since the process started.
CacheWasCommitted ==
  running => /\ \E row \in held : row.opens_at = opens_at
             /\ \E row \in held : row.show_host_information = show_host_information

\* Opening time and host visibility are saved independently: an update changes its own
\* column only, so no visibility update moves the opening, however they overlap.
ColumnsIndependent ==
  [][schedule # NoRow /\ schedule' # schedule =>
       /\ schedule' # NoRow
       /\ schedule'.opens_at # schedule.opens_at =>
            \E u \in WindowUpdates : update[u].pc = "commit" /\ update'[u].pc # "commit"
       /\ schedule'.show_host_information # schedule.show_host_information =>
            \E u \in VisibilityUpdates :
              update[u].pc = "commit" /\ update'[u].pc # "commit"]_windowVars

\* README: before the global opening time nobody may register.  When no update is
\* under way and all were saved, the process opens no earlier than the saved time.
OpensAsScheduled ==
  running /\ RegistrationIsOpen
    /\ (\A u \in Updates : update[u].pc = "idle" \/ update[u].answer = "SAVED")
  => now >= Effective(schedule).opens_at
=============================================================================
