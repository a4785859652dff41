--------------------------- MODULE MCMeetingList ---------------------------
(***************************************************************************)
(* An instance of MeetingList for TLC.                                     *)
(***************************************************************************)
EXTENDS MeetingList, TLC

CONSTANTS g1, g2,   \* meetings
          n1, n2,   \* neighborhoods
          d1        \* a date

CardOf(n, can) == [neighborhood |-> n, date |-> d1, status |-> "OPEN", full |-> ~can,
                   can_apply |-> can]

Listing(cards, choosing, admitted) ==
  [cards |-> cards, show_availability_filter |-> choosing, admitted |-> admitted]

\* Two meetings with room; one is full and the other a draft again; the member has
\* registered elsewhere; the member is not let in any more.
SomeListings ==
  LET both == g1 :> CardOf(n1, TRUE) @@ g2 :> CardOf(n2, TRUE) IN
  {Listing(both, TRUE, TRUE), Listing(g1 :> CardOf(n1, FALSE), TRUE, TRUE),
   Listing(both, FALSE, TRUE), Listing(both, FALSE, FALSE)}

SomeFilters == {NoFilter, [NoFilter EXCEPT !.neighborhoods = {n2}]}
=============================================================================
