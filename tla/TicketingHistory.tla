--------------------------- MODULE TicketingHistory ---------------------------
(***************************************************************************)
(* What ticketing and seating promise.  The history variable contended has *)
(* the tickets that two requests were about at the same time; it does not  *)
(* restrict the behaviour of module Ticketing.                             *)
(***************************************************************************)
EXTENDS Ticketing

VARIABLE contended

HistoryInit == Init /\ contended = {}

Observe ==
  contended' = contended \cup
    {t \in Tickets : \E v, w \in Workers :
       v # w /\ t \in req'[v].tickets \cap req'[w].tickets}

HistoryNext == Next /\ Observe

HistorySpec == HistoryInit /\ [][HistoryNext]_<<vars, contended>>

Uncontended == Tickets \ contended

-----------------------------------------------------------------------------
(* Whatever requests overlap, and wherever they stop *)

\* A seat has one ticket at most, although each request looks whether the seat
\* is free long before it takes it (the unique column occupied_seat_id).
OneTicketPerSeat ==
  \A t, u \in Tickets : seatOf[t] # None /\ seatOf[t] = seatOf[u] => t = u

\* Single tickets sit on single seats their category allows, and bundled
\* tickets on seats of groups: nobody takes a seat out of somebody's group.
SeatsKeptApart ==
  \A t \in Tickets : seatOf[t] # None =>
    IF t \in Single THEN GroupOf[seatOf[t]] = None /\ <<t, seatOf[t]>> \in Suitable
                    ELSE GroupOf[seatOf[t]] # None

\* Seats are exclusive, to one ticket and to one kind of ticket.
SeatsExclusive == OneTicketPerSeat /\ SeatsKeptApart

\* A seat of a group is never taken without the bundle of its ticket occupying
\* that group, so a group that can be occupied again has no sitters left
\* (release_group removes the row it has read, and no other).
GroupSeatsAccounted ==
  \A t \in Tickets : seatOf[t] # None /\ GroupOf[seatOf[t]] # None =>
    LET o == occupancy[GroupOf[seatOf[t]]]
    IN  o # None /\ o.bundle = BundleOf[t]

-----------------------------------------------------------------------------
(* As long as no two requests about the same ticket overlap *)

\* The flag user_checked_in agrees with the rows of ticket_checkins and the
\* log: nobody is checked in twice with a ticket.
CheckInsAccounted ==
  \A t \in Uncontended :
     checkIns[t] = reverts[t] + (IF t \in checkedIn THEN 1 ELSE 0)

\* Revoking a ticket gives its seat back to the others.
RevokedHaveNoSeat == \A t \in Uncontended \cap revoked : seatOf[t] = None

\* A revoked ticket stays revoked, and gets neither a seat nor a user nor a
\* check-in any more, although each of these is decided on a ticket loaded
\* before.
RevokedIsInert ==
  [][\A t \in revoked \ contended' :
        /\ t \in revoked'
        /\ seatOf'[t] # None => seatOf'[t] = seatOf[t]
        /\ usedBy'[t] = usedBy[t]
        /\ checkIns'[t] = checkIns[t]]_vars

\* Who is checked in stays the user of the ticket until that is reverted.
CheckedInUserFixed ==
  [][\A t \in checkedIn \ contended' : usedBy'[t] = usedBy[t]]_vars

\* A bundle none of whose tickets was contended sits together or not at all:
\* if it occupies a group, its tickets have exactly the seats of that group,
\* and otherwise they have none, whatever becomes of the other bundles.
GroupSeatedWhole ==
  \A b \in Bundles : TicketsOf(b) \cap contended = {} =>
    LET groups == {g \in Groups : occupancy[g] # None /\ occupancy[g].bundle = b}
    IN  {seatOf[t] : t \in TicketsOf(b)} =
          IF groups = {} THEN {None} ELSE UNION {SeatsOf(g) : g \in groups}

-----------------------------------------------------------------------------
(* What the tests say of revocation, without regard to overlapping         *)
(* requests.  It does not hold of the code.                                *)

\* test_revoke_ticket_with_seat: a revoked ticket occupies no seat.
RevokedNeverSeated == \A t \in revoked : seatOf[t] = None
=============================================================================
