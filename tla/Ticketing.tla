------------------------------ MODULE Ticketing ------------------------------
(***************************************************************************)
(* Tickets and seats of a party: seats for single tickets, seat groups for *)
(* ticket bundles, appointment of users, check-in, and revocation.         *)
(*                                                                         *)
(* As in module ShopOrder, an action is one database round trip of a       *)
(* worker: rows are loaded, a decision is taken on the loaded data, and a  *)
(* later transaction writes without looking again.  Within a transaction   *)
(* the session returns a row it has loaded before as it was then; a commit *)
(* makes it read the row again.                                            *)
(***************************************************************************)
EXTENDS Naturals, FiniteSets, Functions

CONSTANTS
  Workers,        \* threads that serve requests
  Users,
  Tickets, Bundles,
  BundleOf,       \* ticket -> its bundle, or None
  Seats, Groups,
  GroupOf,        \* seat -> its seat group, or None
  Suitable,       \* pairs <<t, s>>: same category, and s is not blocked
  Owner,          \* ticket -> user it was created for
  MaxCheckIns,    \* bound: check-ins begun with a ticket
  MaxOccupancies, \* bound: occupancies of groups begun
  MayCrash,       \* may a worker die in the middle of a request?
  None

ASSUME TicketingAssumption ==
  /\ BundleOf \in [Tickets -> Bundles \cup {None}]
  /\ \A b \in Bundles : \E t \in Tickets : BundleOf[t] = b
  /\ GroupOf \in [Seats -> Groups \cup {None}]
  /\ Suitable \subseteq Tickets \X Seats
  /\ Owner \in [Tickets -> Users]
  /\ MaxCheckIns \in [Tickets -> Nat] /\ MaxOccupancies \in Nat
  /\ MayCrash \in BOOLEAN
  /\ IsFiniteSet(Tickets) /\ IsFiniteSet(Seats)
  /\ None \notin Users \cup Tickets \cup Bundles \cup Seats \cup Groups
  /\ None \notin [id : Nat, bundle : Bundles]

VARIABLES
  revoked,     \* tickets with tickets.revoked set
  seatOf,      \* tickets.occupied_seat_id
  usedBy,      \* tickets.used_by_id
  checkedIn,   \* tickets with tickets.user_checked_in set
  checkIns,    \* number of rows of ticket_checkins per ticket
  reverts,     \* number of log entries 'user-check-in-reverted' per ticket
  occupancy,   \* row of seat_group_occupancies per group, or None
  occupancies, \* number of such rows ever inserted; the next one's ID
  pc, req      \* per worker: next step, and data of the request

seatVars == <<seatOf, occupancy, occupancies>>
checkInVars == <<checkedIn, checkIns, reverts>>
vars == <<revoked, usedBy, seatVars, checkInVars, pc, req>>

-----------------------------------------------------------------------------
(* Types and state formulae *)

TicketsOf(b) == {t \in Tickets : BundleOf[t] = b}
SeatsOf(g) == {s \in Seats : GroupOf[s] = g}

\* Tickets that are not part of a bundle.
Single == TicketsOf(None)

Steps == {"idle", "check_seat", "occupy_seat", "release_seat", "appoint_user",
          "check_in", "revert_check_in", "visit", "release_visited",
          "mark_revoked", "choose_bundle", "check_group", "occupy_group",
          "find_occupancy", "release_group"}

Occupancy == [id : Nat, bundle : Bundles]
NoSeats == [t \in Tickets |-> None]

Request ==
  [tickets : SUBSET Tickets,               \* the tickets it is about
   seat : Seats \cup {None}, user : Users \cup {None},
   seen : [Tickets -> Seats \cup {None}],  \* their seats, as loaded
   valid : SUBSET Tickets,                 \* those not revoked, as loaded
   todo : SUBSET Tickets, current : Tickets \cup {None},
   expired : BOOLEAN,                      \* committed since the loading?
   bundle : Bundles \cup {None}, group : Groups \cup {None},
   occupied : Occupancy \cup {None}, revoking : BOOLEAN]

NoRequest ==
  [tickets |-> {}, seat |-> None, user |-> None, seen |-> NoSeats, valid |-> {},
   todo |-> {}, current |-> None, expired |-> FALSE, bundle |-> None,
   group |-> None, occupied |-> None, revoking |-> FALSE]

TypeOK ==
  /\ revoked \subseteq Tickets
  /\ seatOf \in [Tickets -> Seats \cup {None}]
  /\ usedBy \in [Tickets -> Users]
  /\ checkedIn \subseteq Tickets
  /\ checkIns \in [Tickets -> Nat]
  /\ reverts \in [Tickets -> Nat]
  /\ occupancy \in [Groups -> Occupancy \cup {None}]
  /\ occupancies \in Nat
  /\ pc \in [Workers -> Steps]
  /\ req \in [Workers -> Request]

\* The shop creates tickets with their owner as user.
Init ==
  /\ revoked = {}
  /\ seatOf = NoSeats
  /\ usedBy = Owner
  /\ checkedIn = {}
  /\ checkIns = [t \in Tickets |-> 0]
  /\ reverts = [t \in Tickets |-> 0]
  /\ occupancy = [g \in Groups |-> None]
  /\ occupancies = 0
  /\ pc = [w \in Workers |-> "idle"]
  /\ req = [w \in Workers |-> NoRequest]

-----------------------------------------------------------------------------
(* Decisions and results the actions are built from.  A definition with an *)
(* underscore is the one after it with a bug; no specification uses it.    *)

Free(s) == \A t \in Tickets : seatOf[t] # s

\* The unique column tickets.occupied_seat_id aborts the transaction.
SeatIsTaken_Never(t, s) == FALSE
SeatIsTaken(t, s) == \E u \in Tickets \ {t} : seatOf[u] = s

MayOccupy(t, s) ==
  Free(s) /\ t \in Single /\ <<t, s>> \in Suitable /\ GroupOf[s] = None

MayCheckIn_Revoked(t) == t \notin checkedIn
MayCheckIn_Again(t) == t \notin revoked
MayCheckIn(t) == t \notin revoked \cup checkedIn

MayAppoint_CheckedIn(t) == t \notin revoked
MayAppoint(t) == t \notin revoked \cup checkedIn

\* What the revocation sees of the ticket it visits.
SeatSeen_Never(w, t) == None
SeatSeen(w, t) == IF req[w].expired THEN seatOf[t] ELSE req[w].seen[t]
ValidSeen(w, t) == IF req[w].expired THEN t \notin revoked ELSE t \in req[w].valid

TodoLeft_All(w, t) == req[w].todo
TodoLeft(w, t) == req[w].todo \ {t}

BundleMayOccupy(b) ==
  /\ TicketsOf(b) \cap revoked = {}
  /\ \A g \in Groups : occupancy[g] # None => occupancy[g].bundle # b

\* Both sorted, tickets and seats are matched one to one.
Seating(b, g) == CHOOSE f \in Bijection(TicketsOf(b), SeatsOf(g)) : TRUE

\* DELETE FROM seat_group_occupancies WHERE id = ...
WithoutRow_ByGroup(o, g) == [occupancy EXCEPT ![g] = None]
WithoutRow(o, g) ==
  IF occupancy[g] = o THEN [occupancy EXCEPT ![g] = None] ELSE occupancy

Unseated_FirstOnly(T) ==
  LET first == CHOOSE t \in T : TRUE IN [seatOf EXCEPT ![first] = None]
Unseated(T) == [t \in Tickets |-> IF t \in T THEN None ELSE seatOf[t]]

-----------------------------------------------------------------------------
(* Steps of a request *)

Proceed(w, step) == pc' = [pc EXCEPT ![w] = step]

Start(w, step, r) ==
  /\ pc[w] = "idle"
  /\ Proceed(w, step)
  /\ req' = [req EXCEPT ![w] = r]

\* The request is over: response sent, error returned, or exception raised.
Finish(w) == Proceed(w, "idle") /\ req' = [req EXCEPT ![w] = NoRequest]

Target(w) == CHOOSE t \in req[w].tickets : TRUE

About(T) == [NoRequest EXCEPT !.tickets = T]
Loaded(T) == [About(T) EXCEPT
  !.seen = [t \in Tickets |-> IF t \in T THEN seatOf[t] ELSE None],
  !.valid = T \ revoked]

-----------------------------------------------------------------------------
(* Seats for single tickets: ticket_seat_management_service *)

LoadToOccupy(w, t, s) ==
  /\ t \notin revoked
  /\ Start(w, "check_seat", [Loaded({t}) EXCEPT !.seat = s])
  /\ UNCHANGED <<revoked, usedBy, seatVars, checkInVars>>

CheckSeat(w) ==
  /\ pc[w] = "check_seat"
  /\ IF MayOccupy(Target(w), req[w].seat)
       THEN Proceed(w, "occupy_seat") /\ UNCHANGED req
       ELSE Finish(w)
  /\ UNCHANGED <<revoked, usedBy, seatVars, checkInVars>>

\* Nothing is written if the ticket had that seat when it was loaded.
OccupySeat(w) ==
  LET t == Target(w)
      s == req[w].seat
  IN  /\ pc[w] = "occupy_seat"
      /\ seatOf' = IF req[w].seen[t] = s \/ SeatIsTaken(t, s)
                     THEN seatOf ELSE [seatOf EXCEPT ![t] = s]
      /\ Finish(w)
      /\ UNCHANGED <<revoked, usedBy, occupancy, occupancies, checkInVars>>

LoadToRelease(w, t) ==
  /\ t \notin revoked /\ seatOf[t] # None
  /\ Start(w, "release_seat", Loaded({t}))
  /\ UNCHANGED <<revoked, usedBy, seatVars, checkInVars>>

MayRelease(w, t) == t \in Single /\ GroupOf[req[w].seen[t]] = None

ReleaseSeat(w) ==
  /\ pc[w] = "release_seat"
  /\ seatOf' = IF MayRelease(w, Target(w))
                 THEN [seatOf EXCEPT ![Target(w)] = None] ELSE seatOf
  /\ Finish(w)
  /\ UNCHANGED <<revoked, usedBy, occupancy, occupancies, checkInVars>>

-----------------------------------------------------------------------------
(* Users and check-in *)

\* Appointing the user a ticket has already writes nothing and is left out.
LoadToAppoint(w, t, u) ==
  /\ MayAppoint(t) /\ usedBy[t] # u
  /\ Start(w, "appoint_user", [About({t}) EXCEPT !.user = u])
  /\ UNCHANGED <<revoked, usedBy, seatVars, checkInVars>>

AppointUser_Withdraws(w) ==
  /\ pc[w] = "appoint_user"
  /\ usedBy' = [usedBy EXCEPT ![Target(w)] = None]
  /\ Finish(w)
  /\ UNCHANGED <<revoked, seatVars, checkInVars>>

AppointUser(w) ==
  /\ pc[w] = "appoint_user"
  /\ usedBy' = [usedBy EXCEPT ![Target(w)] = req[w].user]
  /\ Finish(w)
  /\ UNCHANGED <<revoked, seatVars, checkInVars>>

LoadToCheckIn(w, t) ==
  /\ MayCheckIn(t) /\ checkIns[t] < MaxCheckIns[t]
  /\ Start(w, "check_in", About({t}))
  /\ UNCHANGED <<revoked, usedBy, seatVars, checkInVars>>

CheckIn(w) ==
  /\ pc[w] = "check_in"
  /\ checkedIn' = checkedIn \cup {Target(w)}
  /\ checkIns' = [checkIns EXCEPT ![Target(w)] = @ + 1]
  /\ Finish(w)
  /\ UNCHANGED <<revoked, usedBy, seatVars, reverts>>

LoadToRevert(w, t) ==
  /\ t \in checkedIn
  /\ Start(w, "revert_check_in", About({t}))
  /\ UNCHANGED <<revoked, usedBy, seatVars, checkInVars>>

RevertCheckIn(w) ==
  /\ pc[w] = "revert_check_in"
  /\ checkedIn' = checkedIn \ {Target(w)}
  /\ reverts' = [reverts EXCEPT ![Target(w)] = @ + 1]
  /\ Finish(w)
  /\ UNCHANGED <<revoked, usedBy, seatVars, checkIns>>

-----------------------------------------------------------------------------
(* Revocation of single tickets: ticket_revocation_service.revoke_tickets *)

LoadToRevoke(w, T) ==
  /\ T # {} /\ T \subseteq Single
  /\ Start(w, "visit", [Loaded(T) EXCEPT !.todo = T])
  /\ UNCHANGED <<revoked, usedBy, seatVars, checkInVars>>

\* A ticket with a seat releases it first; a revoked one may not, and the
\* error is raised as an exception.
Visit(w, t) ==
  /\ pc[w] = "visit" /\ t \in req[w].todo
  /\ \/ /\ SeatSeen(w, t) = None
        /\ req' = [req EXCEPT ![w].todo = TodoLeft(w, t)]
        /\ Proceed(w, IF TodoLeft(w, t) = {} THEN "mark_revoked" ELSE "visit")
     \/ /\ SeatSeen(w, t) # None /\ ValidSeen(w, t)
        /\ req' = [req EXCEPT ![w].current = t]
        /\ Proceed(w, "release_visited")
     \/ /\ SeatSeen(w, t) # None /\ ~ValidSeen(w, t)
        /\ Finish(w)
  /\ UNCHANGED <<revoked, usedBy, seatVars, checkInVars>>

\* release_seat commits, so what was loaded of the other tickets expires.
ReleaseVisited(w) ==
  LET t == req[w].current
  IN  /\ pc[w] = "release_visited"
      /\ seatOf' = [seatOf EXCEPT ![t] = None]
      /\ req' = [req EXCEPT ![w].todo = TodoLeft(w, t), ![w].current = None,
                            ![w].expired = TRUE]
      /\ Proceed(w, IF TodoLeft(w, t) = {} THEN "mark_revoked" ELSE "visit")
      /\ UNCHANGED <<revoked, usedBy, occupancy, occupancies, checkInVars>>

MarkRevoked(w) ==
  /\ pc[w] = "mark_revoked"
  /\ revoked' = revoked \cup req[w].tickets
  /\ Finish(w)
  /\ UNCHANGED <<usedBy, seatVars, checkInVars>>

-----------------------------------------------------------------------------
(* Seat groups for bundles: seat_group_service, ticket_bundle_service *)

LoadToOccupyGroup(w, g) ==
  /\ occupancies < MaxOccupancies
  /\ \A s \in SeatsOf(g) : Free(s)
  /\ Start(w, "choose_bundle", [NoRequest EXCEPT !.group = g])
  /\ UNCHANGED <<revoked, usedBy, seatVars, checkInVars>>

\* The form offers the matching bundles; if none is named, that is the end.
ChooseBundle(w) ==
  /\ pc[w] = "choose_bundle"
  /\ \/ \E b \in Bundles :
          /\ Cardinality(TicketsOf(b)) = Cardinality(SeatsOf(req[w].group))
          /\ BundleMayOccupy(b)
          /\ Proceed(w, "check_group")
          /\ req' = [req EXCEPT ![w] =
               [About(TicketsOf(b)) EXCEPT !.bundle = b, !.group = req[w].group]]
     \/ Finish(w)
  /\ UNCHANGED <<revoked, usedBy, seatVars, checkInVars>>

CheckGroup(w) ==
  /\ pc[w] = "check_group"
  /\ IF occupancy[req[w].group] = None
       THEN Proceed(w, "occupy_group") /\ UNCHANGED req
       ELSE Finish(w)
  /\ UNCHANGED <<revoked, usedBy, seatVars, checkInVars>>

\* Unique columns: the group, the bundle, and the seat of each ticket.
OccupancyConflicts(w) ==
  LET b == req[w].bundle
  IN  \/ occupancy[req[w].group] # None
      \/ \E g \in Groups : occupancy[g] # None /\ occupancy[g].bundle = b
      \/ \E t \in TicketsOf(b) : SeatIsTaken(t, Seating(b, req[w].group)[t])

OccupyGroup(w) ==
  LET b == req[w].bundle
      g == req[w].group
  IN  /\ pc[w] = "occupy_group"
      /\ IF OccupancyConflicts(w)
           THEN UNCHANGED seatVars
           ELSE /\ occupancies' = occupancies + 1
                /\ occupancy' = [occupancy EXCEPT
                     ![g] = [id |-> occupancies', bundle |-> b]]
                /\ seatOf' = [t \in Tickets |-> IF t \in TicketsOf(b)
                                               THEN Seating(b, g)[t]
                                               ELSE seatOf[t]]
      /\ Finish(w)
      /\ UNCHANGED <<revoked, usedBy, checkInVars>>

\* An admin releases the group, or a bundle is revoked and looks for the
\* group it occupies; only the latter goes on if there is none.
LoadToReleaseGroup(w, g) ==
  /\ Start(w, "find_occupancy", [NoRequest EXCEPT !.group = g])
  /\ UNCHANGED <<revoked, usedBy, seatVars, checkInVars>>

LoadToRevokeBundle(w, b) ==
  LET r == [About(TicketsOf(b)) EXCEPT !.bundle = b, !.revoking = TRUE]
      groups == {g \in Groups : occupancy[g] # None /\ occupancy[g].bundle = b}
  IN  /\ \/ groups = {} /\ Start(w, "mark_revoked", r)
         \/ \E g \in groups :
              Start(w, "find_occupancy", [r EXCEPT !.group = g])
      /\ UNCHANGED <<revoked, usedBy, seatVars, checkInVars>>

FindOccupancy(w) ==
  LET o == occupancy[req[w].group]
  IN  /\ pc[w] = "find_occupancy"
      /\ IF o = None
           THEN Finish(w)
           ELSE /\ req' = [req EXCEPT ![w].occupied = o,
                             ![w].tickets = @ \cup TicketsOf(o.bundle)]
                /\ Proceed(w, "release_group")
      /\ UNCHANGED <<revoked, usedBy, seatVars, checkInVars>>

\* The tickets are those of the bundle that was found.
ReleaseGroup(w) ==
  LET o == req[w].occupied
  IN  /\ pc[w] = "release_group"
      /\ seatOf' = Unseated(TicketsOf(o.bundle))
      /\ occupancy' = WithoutRow(o, req[w].group)
      /\ IF req[w].revoking
           THEN /\ req' = [req EXCEPT ![w].tickets = TicketsOf(req[w].bundle)]
                /\ Proceed(w, "mark_revoked")
           ELSE Finish(w)
      /\ UNCHANGED <<revoked, usedBy, occupancies, checkInVars>>

-----------------------------------------------------------------------------
(* Specification *)

\* A worker dies, a step raises, or it refuses the request on grounds that
\* are not modelled (permissions, suspended users, another party).
Abandon(w) ==
  /\ MayCrash /\ pc[w] # "idle"
  /\ Finish(w)
  /\ UNCHANGED <<revoked, usedBy, seatVars, checkInVars>>

Begin(w) ==
  \/ \E t \in Tickets :
       \/ \E s \in Seats : LoadToOccupy(w, t, s)
       \/ LoadToRelease(w, t)
       \/ \E u \in Users : LoadToAppoint(w, t, u)
       \/ LoadToCheckIn(w, t) \/ LoadToRevert(w, t)
  \/ \E T \in SUBSET Single : LoadToRevoke(w, T)
  \/ \E g \in Groups : LoadToOccupyGroup(w, g) \/ LoadToReleaseGroup(w, g)
  \/ \E b \in Bundles : LoadToRevokeBundle(w, b)

Continue(w) ==
  \/ CheckSeat(w) \/ OccupySeat(w) \/ ReleaseSeat(w)
  \/ AppointUser(w) \/ CheckIn(w) \/ RevertCheckIn(w)
  \/ \E t \in Tickets : Visit(w, t)
  \/ ReleaseVisited(w) \/ MarkRevoked(w)
  \/ ChooseBundle(w) \/ CheckGroup(w) \/ OccupyGroup(w)
  \/ FindOccupancy(w) \/ ReleaseGroup(w)

Next == \E w \in Workers : Begin(w) \/ Continue(w) \/ Abandon(w)

Spec == Init /\ [][Next]_vars
=============================================================================
