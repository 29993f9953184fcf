--------------------------- MODULE TicketingProofs ---------------------------
(***************************************************************************)
(* Theorems about Ticketing and TicketingHistory, for any number of        *)
(* workers, tickets, bundles, seats and groups.                            *)
(***************************************************************************)
EXTENDS TicketingHistory, FiniteSetTheorems, FunctionTheorems, TLAPS

-----------------------------------------------------------------------------
(* Types *)

TicketSteps == {"check_seat", "occupy_seat", "release_seat", "appoint_user",
                "check_in", "revert_check_in"}
GroupSteps == {"choose_bundle", "check_group", "occupy_group",
               "find_occupancy", "release_group"}

TargetOf(r) == CHOOSE t \in r.tickets : TRUE

\* What the data r of a request says about the step its worker is at.
Fits(step, r) ==
  /\ step = "idle" => r = NoRequest
  /\ step \in TicketSteps => r.tickets # {}
  /\ step \in {"check_seat", "occupy_seat"} => r.seat \in Seats
  /\ step = "occupy_seat" =>
       /\ TargetOf(r) \in Single /\ GroupOf[r.seat] = None
       /\ <<TargetOf(r), r.seat>> \in Suitable
  /\ step = "appoint_user" => r.user \in Users
  /\ step \in GroupSteps => r.group \in Groups
  /\ step \in {"check_group", "occupy_group"} =>
       /\ r.bundle \in Bundles
       /\ Cardinality(TicketsOf(r.bundle)) = Cardinality(SeatsOf(r.group))
  /\ step = "release_group" => r.occupied \in Occupancy

RequestOK == \A w \in Workers : Fits(pc[w], req[w])

TypeInv == TypeOK /\ RequestOK

(* The well-formed requests include those an action starts with. *)
LEMMA RequestTypes ==
  /\ NoRequest \in Request
  /\ \A T \in SUBSET Tickets : About(T) \in Request
  /\ TypeOK => \A T \in SUBSET Tickets : Loaded(T) \in Request
<1>1. NoRequest \in Request
  BY DEF NoRequest, Request, NoSeats
<1>2. ASSUME NEW T \in SUBSET Tickets PROVE About(T) \in Request
  BY <1>1, <1>2 DEF About, Request
<1>3. ASSUME TypeOK, NEW T \in SUBSET Tickets PROVE Loaded(T) \in Request
  <2>1. [t \in Tickets |-> IF t \in T THEN seatOf[t] ELSE None]
          \in [Tickets -> Seats \cup {None}]
    BY <1>3 DEF TypeOK
  <2>2. About(T) \in Request
    BY <1>2
  <2> QED
    BY <2>1, <2>2, <1>3 DEF Loaded, Request
<1> QED
  BY <1>1, <1>2, <1>3

(* A worker that gets well-formed data leaves all workers well-formed. *)
LEMMA MoveType ==
  ASSUME TypeInv, NEW w \in Workers, NEW step \in Steps, NEW r \in Request,
         pc' = [pc EXCEPT ![w] = step], req' = [req EXCEPT ![w] = r],
         Fits(step, r)
  PROVE  pc' \in [Workers -> Steps] /\ req' \in [Workers -> Request] /\ RequestOK'
<1>1. pc \in [Workers -> Steps] /\ req \in [Workers -> Request]
  BY DEF TypeInv, TypeOK
<1>2. pc' \in [Workers -> Steps] /\ req' \in [Workers -> Request]
  BY <1>1
<1>3. ASSUME NEW v \in Workers PROVE Fits(pc'[v], req'[v])
  BY <1>1 DEF TypeInv, RequestOK
<1> QED
  BY <1>2, <1>3 DEF RequestOK, Fits

(* So does a worker that finishes. *)
LEMMA FinishType ==
  ASSUME TypeInv, NEW w \in Workers, Finish(w)
  PROVE  pc' \in [Workers -> Steps] /\ req' \in [Workers -> Request] /\ RequestOK'
<1>1. Fits("idle", NoRequest)
  BY DEF Fits, TicketSteps, GroupSteps
<1> QED
  BY <1>1, RequestTypes, MoveType DEF Finish, Proceed, Steps

(* A step that only concerns the worker keeps the types of the database. *)
LEMMA QuietType ==
  ASSUME TypeInv, UNCHANGED <<revoked, usedBy, seatVars, checkInVars>>,
         pc' \in [Workers -> Steps] /\ req' \in [Workers -> Request] /\ RequestOK'
  PROVE  TypeInv'
  BY DEF TypeInv, TypeOK, seatVars, checkInVars

(* The ticket a request is about is one of its tickets. *)
LEMMA TargetType ==
  ASSUME TypeInv, NEW w \in Workers, pc[w] \in TicketSteps
  PROVE  Target(w) = TargetOf(req[w]) /\ Target(w) \in Tickets
<1>1. req[w].tickets # {} /\ req[w].tickets \subseteq Tickets
  BY DEF TypeInv, TypeOK, RequestOK, Fits, Request
<1> QED
  BY <1>1 DEF Target, TargetOf

(* The initial state is well-formed. *)
LEMMA InitType == Init => TypeInv
<1> SUFFICES ASSUME Init PROVE TypeInv
  OBVIOUS
<1>1. pc \in [Workers -> Steps] /\ req \in [Workers -> Request]
  BY RequestTypes DEF Init, Steps
<1>2. RequestOK
  BY DEF Init, RequestOK, Fits, TicketSteps, GroupSteps
<1>3. seatOf \in [Tickets -> Seats \cup {None}]
  BY DEF Init, NoSeats
<1> QED
  BY <1>1, <1>2, <1>3, TicketingAssumption DEF Init, TypeInv, TypeOK

(* Loading the rows a request starts with keeps the types. *)
LEMMA BeginType ==
  ASSUME TypeInv, NEW w \in Workers, Begin(w)
  PROVE  TypeInv'
<1>0. TypeOK /\ Single \subseteq Tickets
  BY DEF TypeInv, Single, TicketsOf
<1>1. ASSUME NEW step \in Steps, NEW r \in Request, Fits(step, r),
             Start(w, step, r),
             UNCHANGED <<revoked, usedBy, seatVars, checkInVars>>
      PROVE  TypeInv'
  BY <1>1, MoveType, QuietType DEF Start, Proceed
<1>2. ASSUME NEW t \in Tickets, NEW s \in Seats, LoadToOccupy(w, t, s)
      PROVE  TypeInv'
  <2>1. Loaded({t}) \in Request
    BY <1>0, RequestTypes
  <2>2. [Loaded({t}) EXCEPT !.seat = s] \in Request
    BY <2>1 DEF Request
  <2>3. [Loaded({t}) EXCEPT !.seat = s].tickets = {t}
    BY DEF Loaded, About, NoRequest
  <2>4. Fits("check_seat", [Loaded({t}) EXCEPT !.seat = s])
    BY <2>1, <2>3 DEF Fits, TicketSteps, GroupSteps, Request
  <2> QED
    BY <1>1, <1>2, <2>2, <2>4 DEF LoadToOccupy, Steps
<1>3. ASSUME NEW t \in Tickets, LoadToRelease(w, t)
      PROVE  TypeInv'
  <2>1. Loaded({t}) \in Request
    BY <1>0, RequestTypes
  <2>2. Fits("release_seat", Loaded({t}))
    BY DEF Fits, TicketSteps, GroupSteps, Loaded, About, NoRequest
  <2> QED
    BY <1>1, <1>3, <2>1, <2>2 DEF LoadToRelease, Steps
<1>4. ASSUME NEW t \in Tickets, NEW u \in Users, LoadToAppoint(w, t, u)
      PROVE  TypeInv'
  <2>1. About({t}) \in Request
    BY RequestTypes
  <2>2. [About({t}) EXCEPT !.user = u] \in Request
    BY <2>1 DEF Request
  <2>3. Fits("appoint_user", [About({t}) EXCEPT !.user = u])
    BY DEF Fits, TicketSteps, GroupSteps, About, NoRequest
  <2> QED
    BY <1>1, <1>4, <2>2, <2>3 DEF LoadToAppoint, Steps
<1>5. ASSUME NEW t \in Tickets, LoadToCheckIn(w, t) \/ LoadToRevert(w, t)
      PROVE  TypeInv'
  <2>1. About({t}) \in Request
    BY RequestTypes
  <2>2. Fits("check_in", About({t})) /\ Fits("revert_check_in", About({t}))
    BY DEF Fits, TicketSteps, GroupSteps, About, NoRequest
  <2> QED
    BY <1>1, <1>5, <2>1, <2>2 DEF LoadToCheckIn, LoadToRevert, Steps
<1>6. ASSUME NEW T \in SUBSET Single, LoadToRevoke(w, T)
      PROVE  TypeInv'
  <2>1. Loaded(T) \in Request
    BY <1>0, RequestTypes
  <2>2. [Loaded(T) EXCEPT !.todo = T] \in Request
    BY <1>0, <2>1 DEF Request
  <2>3. Fits("visit", [Loaded(T) EXCEPT !.todo = T])
    BY DEF Fits, TicketSteps, GroupSteps
  <2> QED
    BY <1>1, <1>6, <2>2, <2>3 DEF LoadToRevoke, Steps
<1>7. ASSUME NEW g \in Groups, LoadToOccupyGroup(w, g) \/ LoadToReleaseGroup(w, g)
      PROVE  TypeInv'
  <2>1. [NoRequest EXCEPT !.group = g] \in Request
    BY RequestTypes DEF Request
  <2>2. /\ Fits("choose_bundle", [NoRequest EXCEPT !.group = g])
        /\ Fits("find_occupancy", [NoRequest EXCEPT !.group = g])
    BY DEF Fits, TicketSteps, GroupSteps, NoRequest
  <2> QED
    BY <1>1, <1>7, <2>1, <2>2 DEF LoadToOccupyGroup, LoadToReleaseGroup, Steps
<1>8. ASSUME NEW b \in Bundles, LoadToRevokeBundle(w, b)
      PROVE  TypeInv'
  <2> DEFINE r == [About(TicketsOf(b)) EXCEPT !.bundle = b, !.revoking = TRUE]
  <2>1. About(TicketsOf(b)) \in Request
    BY RequestTypes DEF TicketsOf
  <2>2. r \in Request /\ \A g \in Groups : [r EXCEPT !.group = g] \in Request
    BY <2>1 DEF Request
  <2>3. \A g \in Groups : [r EXCEPT !.group = g].group = g
    BY <2>1 DEF Request
  <2>4. /\ Fits("mark_revoked", r)
        /\ \A g \in Groups : Fits("find_occupancy", [r EXCEPT !.group = g])
    BY <2>3 DEF Fits, TicketSteps, GroupSteps
  <2>5. CASE Start(w, "mark_revoked", r)
    BY <1>1, <1>8, <2>2, <2>4, <2>5 DEF LoadToRevokeBundle, Steps
  <2>6. ASSUME NEW g \in Groups, Start(w, "find_occupancy", [r EXCEPT !.group = g])
        PROVE  TypeInv'
    <3> DEFINE rg == [r EXCEPT !.group = g]
    <3>1. rg \in Request /\ Fits("find_occupancy", rg)
      BY <2>2, <2>4
    <3> HIDE DEF rg
    <3> QED
      BY <1>1, <1>8, <2>6, <3>1 DEF LoadToRevokeBundle, Steps, rg
  <2> QED
    BY <1>8, <2>5, <2>6 DEF LoadToRevokeBundle
<1> QED
  BY <1>2, <1>3, <1>4, <1>5, <1>6, <1>7, <1>8 DEF Begin

(* The steps of requests about single tickets keep the types. *)
LEMMA SeatStepsType ==
  ASSUME TypeInv, NEW w \in Workers
  PROVE  /\ CheckSeat(w) => TypeInv'
         /\ OccupySeat(w) => TypeInv'
         /\ ReleaseSeat(w) => TypeInv'
<1>0. /\ req[w] \in Request /\ Fits(pc[w], req[w])
      /\ seatOf \in [Tickets -> Seats \cup {None}]
      /\ pc \in [Workers -> Steps] /\ req \in [Workers -> Request]
  BY DEF TypeInv, TypeOK, RequestOK
<1>1. ASSUME CheckSeat(w) PROVE TypeInv'
  <2>1. CASE MayOccupy(Target(w), req[w].seat)
    <3>1. Fits("occupy_seat", req[w])
      BY <1>0, <1>1, <2>1
      DEF CheckSeat, Fits, TicketSteps, GroupSteps, MayOccupy, Target, TargetOf
    <3>2. pc' = [pc EXCEPT ![w] = "occupy_seat"] /\ req' = [req EXCEPT ![w] = req[w]]
      BY <1>0, <1>1, <2>1 DEF CheckSeat, Proceed
    <3> QED
      BY <1>0, <1>1, <3>1, <3>2, MoveType, QuietType DEF CheckSeat, Steps
  <2>2. CASE ~MayOccupy(Target(w), req[w].seat)
    BY <1>1, <2>2, FinishType, QuietType DEF CheckSeat
  <2> QED
    BY <2>1, <2>2
<1>2. ASSUME OccupySeat(w) PROVE TypeInv'
  <2>1. req[w].seat \in Seats
    BY <1>0, <1>2 DEF OccupySeat, Fits
  <2>2. seatOf' \in [Tickets -> Seats \cup {None}]
    BY <1>0, <1>2, <2>1 DEF OccupySeat
  <2> QED
    BY <1>2, <2>2, FinishType DEF OccupySeat, TypeInv, TypeOK, checkInVars
<1>3. ASSUME ReleaseSeat(w) PROVE TypeInv'
  <2>1. seatOf' \in [Tickets -> Seats \cup {None}]
    BY <1>0, <1>3 DEF ReleaseSeat
  <2> QED
    BY <1>3, <2>1, FinishType DEF ReleaseSeat, TypeInv, TypeOK, checkInVars
<1> QED
  BY <1>1, <1>2, <1>3

(* The steps that change users and check-ins keep the types. *)
LEMMA UserStepsType ==
  ASSUME TypeInv, NEW w \in Workers
  PROVE  /\ AppointUser(w) => TypeInv'
         /\ CheckIn(w) => TypeInv'
         /\ RevertCheckIn(w) => TypeInv'
<1>0. /\ req[w] \in Request /\ Fits(pc[w], req[w])
      /\ usedBy \in [Tickets -> Users] /\ checkedIn \subseteq Tickets
      /\ checkIns \in [Tickets -> Nat] /\ reverts \in [Tickets -> Nat]
  BY DEF TypeInv, TypeOK, RequestOK
<1>1. ASSUME AppointUser(w) PROVE TypeInv'
  <2>1. usedBy' \in [Tickets -> Users]
    BY <1>0, <1>1 DEF AppointUser, Fits
  <2> QED
    BY <1>1, <2>1, FinishType DEF AppointUser, TypeInv, TypeOK, seatVars, checkInVars
<1>2. ASSUME CheckIn(w) PROVE TypeInv'
  <2>1. Target(w) \in Tickets
    BY <1>2, TargetType DEF CheckIn, TicketSteps
  <2>2. checkedIn' \subseteq Tickets /\ checkIns' \in [Tickets -> Nat]
    BY <1>0, <1>2, <2>1 DEF CheckIn
  <2> QED
    BY <1>2, <2>2, FinishType DEF CheckIn, TypeInv, TypeOK, seatVars
<1>3. ASSUME RevertCheckIn(w) PROVE TypeInv'
  <2>0. Target(w) \in Tickets
    BY <1>3, TargetType DEF RevertCheckIn, TicketSteps
  <2>1. checkedIn' \subseteq Tickets /\ reverts' \in [Tickets -> Nat]
    BY <1>0, <1>3, <2>0 DEF RevertCheckIn
  <2> QED
    BY <1>3, <2>1, FinishType DEF RevertCheckIn, TypeInv, TypeOK, seatVars
<1> QED
  BY <1>1, <1>2, <1>3

(* The steps of a revocation keep the types. *)
LEMMA RevokeStepsType ==
  ASSUME TypeInv, NEW w \in Workers
  PROVE  /\ \A t \in Tickets : Visit(w, t) => TypeInv'
         /\ ReleaseVisited(w) => TypeInv'
         /\ MarkRevoked(w) => TypeInv'
<1>0. /\ req[w] \in Request /\ seatOf \in [Tickets -> Seats \cup {None}]
      /\ revoked \subseteq Tickets /\ req[w].tickets \subseteq Tickets
      /\ pc \in [Workers -> Steps] /\ req \in [Workers -> Request]
  BY DEF TypeInv, TypeOK, Request
<1>1. \A r \in Request : /\ Fits("visit", r) /\ Fits("mark_revoked", r)
                         /\ Fits("release_visited", r)
  BY DEF Fits, TicketSteps, GroupSteps
<1>2. \A t \in Tickets : TodoLeft(w, t) \in SUBSET Tickets
  BY <1>0 DEF TodoLeft, Request
<1>3. ASSUME NEW t \in Tickets, Visit(w, t) PROVE TypeInv'
  <2>1. CASE SeatSeen(w, t) = None
    <3> DEFINE r == [req[w] EXCEPT !.todo = TodoLeft(w, t)]
               step == IF TodoLeft(w, t) = {} THEN "mark_revoked" ELSE "visit"
    <3>1. r \in Request
      BY <1>0, <1>2 DEF Request
    <3>2. req' = [req EXCEPT ![w] = r] /\ pc' = [pc EXCEPT ![w] = step]
      BY <1>0, <1>3, <2>1 DEF Visit, Proceed
    <3>3. step \in Steps /\ Fits(step, r)
      BY <1>1, <3>1 DEF Steps
    <3> HIDE DEF r, step
    <3> QED
      BY <1>3, <3>1, <3>2, <3>3, MoveType, QuietType DEF Visit
  <2>2. CASE SeatSeen(w, t) # None /\ ValidSeen(w, t)
    <3> DEFINE r == [req[w] EXCEPT !.current = t]
    <3>1. r \in Request
      BY <1>0 DEF Request
    <3>2. /\ req' = [req EXCEPT ![w] = r]
          /\ pc' = [pc EXCEPT ![w] = "release_visited"]
      BY <1>0, <1>3, <2>2 DEF Visit, Proceed
    <3> HIDE DEF r
    <3> QED
      BY <1>1, <1>3, <3>1, <3>2, MoveType, QuietType DEF Visit, Steps
  <2>3. CASE SeatSeen(w, t) # None /\ ~ValidSeen(w, t)
    BY <1>3, <2>3, FinishType, QuietType DEF Visit
  <2> QED
    BY <2>1, <2>2, <2>3
<1>4. ASSUME ReleaseVisited(w) PROVE TypeInv'
  <2> DEFINE t == req[w].current
             left == TodoLeft(w, t)
             r == [req[w] EXCEPT !.todo = left, !.current = None, !.expired = TRUE]
             step == IF left = {} THEN "mark_revoked" ELSE "visit"
  <2>1. left \in SUBSET Tickets
    BY <1>0 DEF TodoLeft, Request
  <2>2. r \in Request
    BY <1>0, <2>1 DEF Request
  <2>3. req' = [req EXCEPT ![w] = r] /\ pc' = [pc EXCEPT ![w] = step]
    BY <1>0, <1>4 DEF ReleaseVisited, Proceed
  <2>4. step \in Steps /\ Fits(step, r)
    BY <1>1, <2>2 DEF Steps
  <2>5. seatOf' \in [Tickets -> Seats \cup {None}]
    BY <1>0, <1>4 DEF ReleaseVisited
  <2> HIDE DEF r, step
  <2> QED
    BY <1>4, <2>2, <2>3, <2>4, <2>5, MoveType
    DEF ReleaseVisited, TypeInv, TypeOK, checkInVars
<1>5. ASSUME MarkRevoked(w) PROVE TypeInv'
  <2>1. revoked' \subseteq Tickets
    BY <1>0, <1>5 DEF MarkRevoked
  <2> QED
    BY <1>5, <2>1, FinishType DEF MarkRevoked, TypeInv, TypeOK, seatVars, checkInVars
<1> QED
  BY <1>3, <1>4, <1>5

(* A bundle and a group of the same size are matched one to one. *)
LEMMA SeatingMatches ==
  ASSUME NEW b \in Bundles, NEW g \in Groups,
         Cardinality(TicketsOf(b)) = Cardinality(SeatsOf(g))
  PROVE  /\ Seating(b, g) \in [TicketsOf(b) -> SeatsOf(g)]
         /\ \A t, u \in TicketsOf(b) :
              Seating(b, g)[t] = Seating(b, g)[u] => t = u
<1>1. TicketsOf(b) \subseteq Tickets /\ SeatsOf(g) \subseteq Seats
  BY DEF TicketsOf, SeatsOf
<1>2. IsFiniteSet(TicketsOf(b)) /\ IsFiniteSet(SeatsOf(g))
  BY <1>1, FS_Subset, TicketingAssumption
<1>3. ExistsBijection(TicketsOf(b), SeatsOf(g))
  BY <1>2, FS_SameCardinalityBij
<1>4. Seating(b, g) \in Bijection(TicketsOf(b), SeatsOf(g))
  BY <1>3 DEF ExistsBijection, Seating
<1> QED
  BY <1>4, Fun_BijectionProperties

(* The steps of requests about bundles and groups keep the types. *)
LEMMA GroupStepsType ==
  ASSUME TypeInv, NEW w \in Workers
  PROVE  /\ ChooseBundle(w) => TypeInv'
         /\ CheckGroup(w) => TypeInv'
         /\ OccupyGroup(w) => TypeInv'
         /\ FindOccupancy(w) => TypeInv'
         /\ ReleaseGroup(w) => TypeInv'
<1>0. /\ req[w] \in Request /\ Fits(pc[w], req[w])
      /\ seatOf \in [Tickets -> Seats \cup {None}]
      /\ occupancy \in [Groups -> Occupancy \cup {None}] /\ occupancies \in Nat
      /\ pc \in [Workers -> Steps] /\ req \in [Workers -> Request]
  BY DEF TypeInv, TypeOK, RequestOK
<1>1. ASSUME ChooseBundle(w) PROVE TypeInv'
  <2>1. CASE Finish(w)
    BY <1>1, <2>1, FinishType, QuietType DEF ChooseBundle
  <2>2. CASE ~Finish(w)
    <3> DEFINE r(b) == [About(TicketsOf(b)) EXCEPT !.bundle = b,
                                                   !.group = req[w].group]
    <3>1. PICK b \in Bundles :
            /\ Cardinality(TicketsOf(b)) = Cardinality(SeatsOf(req[w].group))
            /\ pc' = [pc EXCEPT ![w] = "check_group"]
            /\ req' = [req EXCEPT ![w] = r(b)]
      BY <1>1, <2>2 DEF ChooseBundle, Proceed
    <3>2. About(TicketsOf(b)) \in Request
      BY RequestTypes DEF TicketsOf
    <3>3. r(b) \in Request /\ r(b).bundle = b /\ r(b).group = req[w].group
      BY <1>0, <3>2 DEF Request
    <3>4. req[w].group \in Groups
      BY <1>0, <1>1 DEF ChooseBundle, Fits, GroupSteps
    <3>5. Fits("check_group", r(b))
      BY <3>1, <3>3, <3>4 DEF Fits, TicketSteps, GroupSteps
    <3> HIDE DEF r
    <3> QED
      BY <1>1, <3>1, <3>3, <3>5, MoveType, QuietType DEF ChooseBundle, Steps
  <2> QED
    BY <2>1, <2>2
<1>2. ASSUME CheckGroup(w) PROVE TypeInv'
  <2>1. CASE occupancy[req[w].group] = None
    <3>1. Fits("occupy_group", req[w])
      BY <1>0, <1>2 DEF CheckGroup, Fits, TicketSteps, GroupSteps
    <3>2. pc' = [pc EXCEPT ![w] = "occupy_group"] /\ req' = [req EXCEPT ![w] = req[w]]
      BY <1>0, <1>2, <2>1 DEF CheckGroup, Proceed
    <3> QED
      BY <1>0, <1>2, <3>1, <3>2, MoveType, QuietType DEF CheckGroup, Steps
  <2>2. CASE occupancy[req[w].group] # None
    BY <1>2, <2>2, FinishType, QuietType DEF CheckGroup
  <2> QED
    BY <2>1, <2>2
<1>3. ASSUME OccupyGroup(w) PROVE TypeInv'
  <2> DEFINE b == req[w].bundle
             g == req[w].group
  <2>1. CASE OccupancyConflicts(w)
    BY <1>3, <2>1, FinishType, QuietType DEF OccupyGroup
  <2>2. CASE ~OccupancyConflicts(w)
    <3>1. b \in Bundles /\ g \in Groups
          /\ Cardinality(TicketsOf(b)) = Cardinality(SeatsOf(g))
      BY <1>0, <1>3 DEF OccupyGroup, Fits, GroupSteps
    <3>2. Seating(b, g) \in [TicketsOf(b) -> Seats]
      BY <3>1, SeatingMatches DEF SeatsOf
    <3>3. seatOf' \in [Tickets -> Seats \cup {None}]
      BY <1>0, <1>3, <2>2, <3>2 DEF OccupyGroup
    <3>4. occupancies' \in Nat
      BY <1>0, <1>3, <2>2 DEF OccupyGroup
    <3>5. occupancy' \in [Groups -> Occupancy \cup {None}]
      BY <1>0, <1>3, <2>2, <3>1, <3>4 DEF OccupyGroup, Occupancy
    <3> QED
      BY <1>3, <3>3, <3>4, <3>5, FinishType DEF OccupyGroup, TypeInv, TypeOK, checkInVars
  <2> QED
    BY <2>1, <2>2
<1>4. ASSUME FindOccupancy(w) PROVE TypeInv'
  <2> DEFINE o == occupancy[req[w].group]
             r == [req[w] EXCEPT !.occupied = o,
                                 !.tickets = @ \cup TicketsOf(o.bundle)]
  <2>1. CASE o = None
    BY <1>4, <2>1, FinishType, QuietType DEF FindOccupancy
  <2>2. CASE o # None
    <3>1. req[w].group \in Groups
      BY <1>0, <1>4 DEF FindOccupancy, Fits, GroupSteps
    <3>2. o \in Occupancy
      BY <1>0, <2>2, <3>1
    <3>3. TicketsOf(o.bundle) \subseteq Tickets
      BY DEF TicketsOf
    <3>4. r \in Request /\ r.occupied = o /\ r.group = req[w].group
      BY <1>0, <3>2, <3>3 DEF Request
    <3>5. Fits("release_group", r)
      BY <3>1, <3>2, <3>4 DEF Fits, TicketSteps, GroupSteps
    <3>6. pc' = [pc EXCEPT ![w] = "release_group"] /\ req' = [req EXCEPT ![w] = r]
      BY <1>0, <1>4, <2>2 DEF FindOccupancy, Proceed
    <3> HIDE DEF r
    <3> QED
      BY <1>4, <3>4, <3>5, <3>6, MoveType, QuietType DEF FindOccupancy, Steps
  <2> QED
    BY <2>1, <2>2
<1>5. ASSUME ReleaseGroup(w) PROVE TypeInv'
  <2> DEFINE r == [req[w] EXCEPT !.tickets = TicketsOf(req[w].bundle)]
  <2>1. seatOf' \in [Tickets -> Seats \cup {None}]
    BY <1>0, <1>5 DEF ReleaseGroup, Unseated
  <2>2. occupancy' \in [Groups -> Occupancy \cup {None}]
    BY <1>0, <1>5 DEF ReleaseGroup, WithoutRow
  <2>3. pc' \in [Workers -> Steps] /\ req' \in [Workers -> Request] /\ RequestOK'
    <3>1. CASE req[w].revoking
      <4>1. r \in Request
        BY <1>0 DEF Request, TicketsOf
      <4>2. pc' = [pc EXCEPT ![w] = "mark_revoked"] /\ req' = [req EXCEPT ![w] = r]
        BY <1>0, <1>5, <3>1 DEF ReleaseGroup, Proceed
      <4>3. Fits("mark_revoked", r)
        BY DEF Fits, TicketSteps, GroupSteps
      <4> HIDE DEF r
      <4> QED
        BY <4>1, <4>2, <4>3, MoveType DEF Steps
    <3>2. CASE ~req[w].revoking
      BY <1>5, <3>2, FinishType DEF ReleaseGroup
    <3> QED
      BY <3>1, <3>2
  <2> QED
    BY <1>5, <2>1, <2>2, <2>3 DEF ReleaseGroup, TypeInv, TypeOK, checkInVars
<1> QED
  BY <1>1, <1>2, <1>3, <1>4, <1>5

(* Every step keeps the types. *)
LEMMA NextType == TypeInv /\ [Next]_vars => TypeInv'
<1> SUFFICES ASSUME TypeInv, [Next]_vars PROVE TypeInv'
  OBVIOUS
<1>1. ASSUME NEW w \in Workers, Begin(w) PROVE TypeInv'
  BY <1>1, BeginType
<1>2. ASSUME NEW w \in Workers, Continue(w) PROVE TypeInv'
  BY <1>2, SeatStepsType, UserStepsType, RevokeStepsType, GroupStepsType
  DEF Continue
<1>3. ASSUME NEW w \in Workers, Abandon(w) PROVE TypeInv'
  BY <1>3, FinishType, QuietType DEF Abandon
<1>4. CASE UNCHANGED vars
  BY <1>4 DEF vars, seatVars, checkInVars, TypeInv, TypeOK, RequestOK
<1> QED
  BY <1>1, <1>2, <1>3, <1>4 DEF Next

\* Type correctness: every variable keeps its type whichever requests overlap
\* or die; in particular a ticket always has a user, and a group that is
\* occupied has a bundle.
THEOREM TicketingTypeCorrect == Spec => []TypeOK
<1>1. TypeInv => TypeOK
  BY DEF TypeInv
<1> QED
  BY InitType, NextType, <1>1, PTL DEF Spec

-----------------------------------------------------------------------------
(* Seats *)

SeatInv == OneTicketPerSeat /\ SeatsKeptApart /\ GroupSeatsAccounted

(* Five steps change the seats or the occupancies; the others do not. *)
LEMMA SeatChange ==
  ASSUME [Next]_vars
  PROVE  \/ UNCHANGED <<seatOf, occupancy>>
         \/ \E w \in Workers : \/ OccupySeat(w) \/ ReleaseSeat(w)
                              \/ ReleaseVisited(w)
                              \/ OccupyGroup(w) \/ ReleaseGroup(w)
<1>1. ASSUME NEW w \in Workers, Begin(w) \/ Abandon(w)
      PROVE  UNCHANGED <<seatOf, occupancy>>
  BY <1>1 DEF Begin, Abandon, LoadToOccupy, LoadToRelease, LoadToAppoint,
     LoadToCheckIn, LoadToRevert, LoadToRevoke, LoadToOccupyGroup,
     LoadToReleaseGroup, LoadToRevokeBundle, seatVars
<1>2. ASSUME NEW w \in Workers, Continue(w),
             ~(OccupySeat(w) \/ ReleaseSeat(w) \/ ReleaseVisited(w)),
             ~(OccupyGroup(w) \/ ReleaseGroup(w))
      PROVE  UNCHANGED <<seatOf, occupancy>>
  BY <1>2 DEF Continue, CheckSeat, AppointUser, CheckIn, RevertCheckIn, Visit,
     MarkRevoked, ChooseBundle, CheckGroup, FindOccupancy, seatVars
<1> QED
  BY <1>1, <1>2 DEF Next, vars, seatVars

(* Tickets may give up seats at any time, as long as the occupancies stay. *)
LEMMA SeatsGivenUp ==
  ASSUME TypeOK, SeatInv, occupancy' = occupancy, DOMAIN seatOf' = Tickets,
         \A t \in Tickets : seatOf'[t] \in {seatOf[t], None}
  PROVE  SeatInv'
<1>1. OneTicketPerSeat'
  BY DEF SeatInv, OneTicketPerSeat
<1>2. SeatsKeptApart'
  BY DEF SeatInv, SeatsKeptApart
<1>3. GroupSeatsAccounted'
  BY DEF SeatInv, GroupSeatsAccounted
<1> QED
  BY <1>1, <1>2, <1>3 DEF SeatInv

(* A single ticket takes a free seat outside of the groups. *)
LEMMA SeatOccupied ==
  ASSUME TypeInv, SeatInv, NEW w \in Workers, OccupySeat(w)
  PROVE  SeatInv'
<1> DEFINE t == Target(w)
           s == req[w].seat
<1>0. seatOf \in [Tickets -> Seats \cup {None}]
  BY DEF TypeInv, TypeOK
<1>1. t \in Tickets /\ t \in Single /\ GroupOf[s] = None /\ <<t, s>> \in Suitable
  BY TargetType DEF OccupySeat, TypeInv, RequestOK, Fits, TicketSteps
<1>2. CASE seatOf' = seatOf
  BY <1>2 DEF OccupySeat, SeatInv, OneTicketPerSeat, SeatsKeptApart,
     GroupSeatsAccounted
<1>3. CASE seatOf' = [seatOf EXCEPT ![t] = s] /\ ~SeatIsTaken(t, s)
  <2>1. seatOf'[t] = s /\ \A u \in Tickets \ {t} : seatOf'[u] = seatOf[u]
    BY <1>0, <1>1, <1>3
  <2>2. OneTicketPerSeat'
    BY <1>3, <2>1 DEF SeatInv, OneTicketPerSeat, SeatIsTaken
  <2>3. SeatsKeptApart'
    BY <1>1, <2>1 DEF SeatInv, SeatsKeptApart
  <2>4. GroupSeatsAccounted'
    BY <1>1, <2>1 DEF SeatInv, GroupSeatsAccounted, OccupySeat
  <2> QED
    BY <2>2, <2>3, <2>4 DEF SeatInv
<1> QED
  BY <1>2, <1>3 DEF OccupySeat

(* A bundle takes the seats of a group nobody occupies. *)
LEMMA GroupOccupied ==
  ASSUME TypeInv, SeatInv, NEW w \in Workers, OccupyGroup(w)
  PROVE  SeatInv'
<1> DEFINE b == req[w].bundle
           g == req[w].group
<1>0. /\ seatOf \in [Tickets -> Seats \cup {None}]
      /\ occupancy \in [Groups -> Occupancy \cup {None}]
  BY DEF TypeInv, TypeOK
<1>1. CASE OccupancyConflicts(w)
  BY <1>1 DEF OccupyGroup, seatVars, SeatInv, OneTicketPerSeat, SeatsKeptApart,
     GroupSeatsAccounted
<1>2. CASE ~OccupancyConflicts(w)
  <2>1. b \in Bundles /\ g \in Groups
        /\ Cardinality(TicketsOf(b)) = Cardinality(SeatsOf(g))
    BY DEF OccupyGroup, TypeInv, RequestOK, Fits, GroupSteps
  <2>2. /\ \A t \in TicketsOf(b) : Seating(b, g)[t] \in SeatsOf(g)
        /\ \A t, u \in TicketsOf(b) : Seating(b, g)[t] = Seating(b, g)[u] => t = u
    BY <2>1, SeatingMatches
  <2>3. /\ \A t \in TicketsOf(b) : seatOf'[t] = Seating(b, g)[t]
        /\ \A t \in Tickets \ TicketsOf(b) : seatOf'[t] = seatOf[t]
    BY <1>2 DEF OccupyGroup, TicketsOf
  <2>4. /\ occupancy[g] = None /\ occupancy'[g] # None
        /\ occupancy'[g].bundle = b
        /\ \A h \in Groups \ {g} : occupancy'[h] = occupancy[h]
    <3>1. occupancy[g] = None
      BY <1>2 DEF OccupancyConflicts
    <3>2. occupancy' = [occupancy EXCEPT ![g] = [id |-> occupancies', bundle |-> b]]
      BY <1>2 DEF OccupyGroup
    <3>3. occupancies' \in Nat
      BY <1>2 DEF OccupyGroup, TypeInv, TypeOK
    <3>4. [id |-> occupancies', bundle |-> b] # None
      BY <2>1, <3>3, TicketingAssumption
    <3> QED
      BY <1>0, <2>1, <3>1, <3>2, <3>4
  <2>5. \A t \in TicketsOf(b) : \A u \in Tickets \ {t} :
          seatOf[u] # Seating(b, g)[t]
    BY <1>2 DEF OccupancyConflicts, SeatIsTaken
  <2>6. OneTicketPerSeat'
    <3> SUFFICES ASSUME NEW t \in Tickets, NEW u \in Tickets,
                        seatOf'[t] # None, seatOf'[t] = seatOf'[u]
                 PROVE  t = u
      BY DEF OneTicketPerSeat
    <3>1. CASE t \in TicketsOf(b) /\ u \in TicketsOf(b)
      BY <2>2, <2>3, <3>1
    <3>2. CASE t \in TicketsOf(b) /\ u \notin TicketsOf(b)
      BY <2>3, <2>5, <3>2
    <3>3. CASE t \notin TicketsOf(b) /\ u \in TicketsOf(b)
      BY <2>3, <2>5, <3>3
    <3>4. CASE t \notin TicketsOf(b) /\ u \notin TicketsOf(b)
      BY <2>3, <3>4 DEF SeatInv, OneTicketPerSeat
    <3> QED
      BY <3>1, <3>2, <3>3, <3>4
  <2>7. SeatsKeptApart'
    BY <2>1, <2>2, <2>3, TicketingAssumption
    DEF SeatInv, SeatsKeptApart, Single, TicketsOf, SeatsOf
  <2>8. GroupSeatsAccounted'
    <3> SUFFICES ASSUME NEW t \in Tickets, seatOf'[t] # None,
                        GroupOf[seatOf'[t]] # None
                 PROVE  /\ occupancy'[GroupOf[seatOf'[t]]] # None
                        /\ occupancy'[GroupOf[seatOf'[t]]].bundle = BundleOf[t]
      BY DEF GroupSeatsAccounted
    <3>1. CASE t \in TicketsOf(b)
      BY <2>2, <2>3, <2>4, <3>1 DEF TicketsOf, SeatsOf
    <3>2. CASE t \notin TicketsOf(b)
      <4>1. seatOf'[t] = seatOf[t] /\ seatOf[t] \in Seats
        BY <1>0, <2>3, <3>2
      <4>2. GroupOf[seatOf[t]] \in Groups
        BY <4>1, TicketingAssumption
      <4> QED
        BY <2>4, <4>1, <4>2 DEF SeatInv, GroupSeatsAccounted
    <3> QED
      BY <3>1, <3>2
  <2> QED
    BY <2>6, <2>7, <2>8 DEF SeatInv
<1> QED
  BY <1>1, <1>2

(* The tickets of the bundle that was found lose their seats, and the row that
   was found is removed, if it is still there. *)
LEMMA GroupReleased ==
  ASSUME TypeInv, SeatInv, NEW w \in Workers, ReleaseGroup(w)
  PROVE  SeatInv'
<1> DEFINE o == req[w].occupied
<1>0. /\ seatOf \in [Tickets -> Seats \cup {None}]
      /\ occupancy \in [Groups -> Occupancy \cup {None}]
  BY DEF TypeInv, TypeOK
<1>1. \A t \in Tickets : seatOf'[t] = IF BundleOf[t] = o.bundle THEN None ELSE seatOf[t]
  BY DEF ReleaseGroup, Unseated, TicketsOf
<1>2. \A h \in Groups : occupancy'[h] = occupancy[h] \/ occupancy[h] = o
  BY <1>0 DEF ReleaseGroup, WithoutRow
<1>3. OneTicketPerSeat'
  BY <1>1 DEF SeatInv, OneTicketPerSeat
<1>4. SeatsKeptApart'
  BY <1>1 DEF SeatInv, SeatsKeptApart
<1>5. GroupSeatsAccounted'
  <2> SUFFICES ASSUME NEW t \in Tickets, seatOf'[t] # None,
                      GroupOf[seatOf'[t]] # None
               PROVE  /\ occupancy'[GroupOf[seatOf'[t]]] # None
                      /\ occupancy'[GroupOf[seatOf'[t]]].bundle = BundleOf[t]
    BY DEF GroupSeatsAccounted
  <2>1. seatOf'[t] = seatOf[t] /\ seatOf[t] \in Seats /\ BundleOf[t] # o.bundle
    BY <1>0, <1>1
  <2>2. GroupOf[seatOf[t]] \in Groups
    BY <2>1, TicketingAssumption
  <2>3. /\ occupancy[GroupOf[seatOf[t]]] # None
        /\ occupancy[GroupOf[seatOf[t]]].bundle = BundleOf[t]
    BY <2>1 DEF SeatInv, GroupSeatsAccounted
  <2> QED
    BY <1>2, <2>1, <2>2, <2>3
<1> QED
  BY <1>3, <1>4, <1>5 DEF SeatInv

(* Every step keeps the seats in order. *)
LEMMA NextSeats == TypeInv /\ SeatInv /\ [Next]_vars => SeatInv'
<1> SUFFICES ASSUME TypeInv, SeatInv, [Next]_vars PROVE SeatInv'
  OBVIOUS
<1>0. TypeOK /\ seatOf \in [Tickets -> Seats \cup {None}]
  BY DEF TypeInv, TypeOK
<1>1. CASE UNCHANGED <<seatOf, occupancy>>
  BY <1>1 DEF SeatInv, OneTicketPerSeat, SeatsKeptApart, GroupSeatsAccounted
<1>2. ASSUME NEW w \in Workers, ReleaseSeat(w) \/ ReleaseVisited(w)
      PROVE  SeatInv'
  <2>1. seatOf' \in {seatOf, [seatOf EXCEPT ![Target(w)] = None],
                    [seatOf EXCEPT ![req[w].current] = None]}
    BY <1>2 DEF ReleaseSeat, ReleaseVisited
  <2>2. /\ DOMAIN seatOf' = Tickets
        /\ \A t \in Tickets : seatOf'[t] \in {seatOf[t], None}
    BY <1>0, <2>1
  <2> QED
    BY <1>0, <1>2, <2>2, SeatsGivenUp DEF ReleaseSeat, ReleaseVisited
<1> QED
  BY <1>1, <1>2, SeatChange, SeatOccupied, GroupOccupied, GroupReleased

(* Seats are in order at the start, and every recorded step keeps them so.  *)
LEMMA SeatsInit == HistoryInit => TypeInv /\ SeatInv
<1> SUFFICES ASSUME HistoryInit PROVE TypeInv /\ SeatInv
  OBVIOUS
<1>1. TypeInv
  BY InitType DEF HistoryInit
<1>2. SeatInv
  BY DEF HistoryInit, Init, NoSeats, SeatInv, OneTicketPerSeat, SeatsKeptApart,
         GroupSeatsAccounted
<1> QED
  BY <1>1, <1>2

(* Recording who meets whom changes nothing about seats. *)
LEMMA SeatsNext ==
  TypeInv /\ SeatInv /\ [HistoryNext]_<<vars, contended>> => (TypeInv /\ SeatInv)'
<1> SUFFICES ASSUME TypeInv, SeatInv, [HistoryNext]_<<vars, contended>>
             PROVE  (TypeInv /\ SeatInv)'
  OBVIOUS
<1>1. [Next]_vars
  BY DEF HistoryNext
<1> QED
  BY <1>1, NextType, NextSeats

\* Whichever requests overlap or die: no seat has two tickets, and single
\* tickets and bundles keep to their own seats.
THEOREM SeatsStayExclusive == HistorySpec => []SeatsExclusive
<1>1. SeatInv => SeatsExclusive
  BY DEF SeatInv, SeatsExclusive
<1> QED
  BY <1>1, SeatsInit, SeatsNext, PTL DEF HistorySpec

\* Whichever requests overlap or die: a seat of a group is taken only under the
\* occupancy of the ticket's bundle, so a group given back has nobody left in it.
THEOREM GroupSeatsInOrder == HistorySpec => []GroupSeatsAccounted
<1>1. SeatInv => GroupSeatsAccounted
  BY DEF SeatInv
<1> QED
  BY <1>1, SeatsInit, SeatsNext, PTL DEF HistorySpec

-----------------------------------------------------------------------------
(* Tickets no two requests were about at once.  A request writes what      *)
(* follows from the rows it has loaded, and only to tickets it is about.   *)
(* So as long as no other request is about a ticket, what is known of it   *)
(* stays true until it is acted upon.                                      *)


hvars == <<vars, contended>>

-----------------------------------------------------------------------------
(* The inductive invariant *)

\* Which tickets a request is about: those it will write to are among them.
Scoped(step, r) ==
  /\ step \in {"visit", "release_visited"} =>
       r.tickets \subseteq Single /\ r.todo \subseteq r.tickets
  /\ step = "release_visited" => r.current \in r.tickets
  /\ step \in {"check_group", "occupy_group"} => r.tickets = TicketsOf(r.bundle)
  /\ step \in {"find_occupancy", "release_group"} /\ r.revoking =>
       r.bundle \in Bundles /\ TicketsOf(r.bundle) \subseteq r.tickets
  /\ step = "release_group" => TicketsOf(r.occupied.bundle) \subseteq r.tickets

ScopeInv == \A w \in Workers : Scoped(pc[w], req[w])

\* Whenever two requests are about the same ticket, that is on record.
OverlapsKnown ==
  \A v, w \in Workers : v # w => req[v].tickets \cap req[w].tickets \subseteq contended

\* Steps that are taken only with tickets that were valid when they were loaded.
ValidSteps == {"check_seat", "occupy_seat", "appoint_user", "check_in",
               "check_group", "occupy_group"}

\* What the revocation of single tickets knows of ticket t.
VisitKnown(r, t) ==
  /\ ~r.expired => r.seen[t] = seatOf[t]
  /\ t \notin r.todo => seatOf[t] = None

\* What the release of a group knows of ticket t.
FindingKnown(r, t) ==
  r.revoking /\ BundleOf[t] = r.bundle =>
    occupancy[r.group] # None /\ occupancy[r.group].bundle = r.bundle

ReleaseKnown(r, t) ==
  /\ r.revoking /\ BundleOf[t] = r.bundle => r.occupied.bundle = r.bundle
  /\ BundleOf[t] = r.occupied.bundle => occupancy[r.group] = r.occupied

\* What a worker at a step, with data r, knows of ticket t is still so.
Known(step, r, t) ==
  /\ step \in ValidSteps => t \notin revoked
  /\ step \in {"appoint_user", "check_in"} => t \notin checkedIn
  /\ step = "revert_check_in" => t \in checkedIn
  /\ step \in {"visit", "release_visited"} => VisitKnown(r, t)
  /\ step = "mark_revoked" => seatOf[t] = None
  /\ step = "find_occupancy" => FindingKnown(r, t)
  /\ step = "release_group" => ReleaseKnown(r, t)

KnownInv ==
  \A w \in Workers : \A t \in req[w].tickets \ contended : Known(pc[w], req[w], t)

\* A bundle occupies one group at most.
OneGroupPerBundle ==
  \A g, h \in Groups :
    occupancy[g] # None /\ occupancy[h] # None /\ occupancy[g].bundle = occupancy[h].bundle
      => g = h

\* A bundle none of whose tickets was contended has all seats of its group.
SeatedTogether ==
  \A g \in Groups :
    LET T == TicketsOf(occupancy[g].bundle)
    IN  occupancy[g] # None /\ T \cap contended = {} =>
          {seatOf[t] : t \in T} = SeatsOf(g)

LoadInv == TypeInv /\ SeatInv /\ ScopeInv /\ OverlapsKnown /\ KnownInv

-----------------------------------------------------------------------------
(* Locality *)

WorkerStep(w) == Begin(w) \/ Continue(w) \/ Abandon(w)

(* A step leaves the requests of others alone. *)
LEMMA OthersKeepRequests ==
  ASSUME TypeInv, NEW w \in Workers, WorkerStep(w)
  PROVE  \A v \in Workers \ {w} : pc'[v] = pc[v] /\ req'[v] = req[v]
<1>0. pc \in [Workers -> Steps] /\ req \in [Workers -> Request]
  BY DEF TypeInv, TypeOK
<1>1. CASE Begin(w)
  BY <1>0, <1>1
  DEF Begin, LoadToOccupy, LoadToRelease, LoadToAppoint, LoadToCheckIn, LoadToRevert,
      LoadToRevoke, LoadToOccupyGroup, LoadToReleaseGroup, LoadToRevokeBundle, Start,
      Proceed
<1>2. CASE Abandon(w)
  BY <1>0, <1>2 DEF Abandon, Finish, Proceed
<1>3. CASE Continue(w)
  <2>1. CASE CheckSeat(w) \/ OccupySeat(w) \/ ReleaseSeat(w) \/ AppointUser(w)
             \/ CheckIn(w) \/ RevertCheckIn(w) \/ MarkRevoked(w) \/ CheckGroup(w)
             \/ OccupyGroup(w)
    BY <1>0, <2>1
    DEF CheckSeat, OccupySeat, ReleaseSeat, AppointUser, CheckIn, RevertCheckIn,
        MarkRevoked, CheckGroup, OccupyGroup, Finish, Proceed
  <2>2. CASE \E t \in Tickets : Visit(w, t)
    BY <1>0, <2>2 DEF Visit, Finish, Proceed
  <2>3. CASE ReleaseVisited(w)
    BY <1>0, <2>3 DEF ReleaseVisited, Proceed
  <2>4. CASE ChooseBundle(w)
    BY <1>0, <2>4 DEF ChooseBundle, Finish, Proceed
  <2>5. CASE FindOccupancy(w) \/ ReleaseGroup(w)
    BY <1>0, <2>5 DEF FindOccupancy, ReleaseGroup, Finish, Proceed
  <2> QED
    BY <1>3, <2>1, <2>2, <2>3, <2>4, <2>5 DEF Continue
<1> QED
  BY <1>1, <1>2, <1>3 DEF WorkerStep

(* A step writes only to the tickets its request is about. *)
LEMMA WritesAreScoped ==
  ASSUME TypeInv, ScopeInv, NEW w \in Workers, WorkerStep(w),
         NEW t \in Tickets, t \notin req[w].tickets
  PROVE  /\ seatOf'[t] = seatOf[t] /\ usedBy'[t] = usedBy[t]
         /\ t \in revoked' <=> t \in revoked
         /\ t \in checkedIn' <=> t \in checkedIn
         /\ checkIns'[t] = checkIns[t] /\ reverts'[t] = reverts[t]
<1>0. /\ seatOf \in [Tickets -> Seats \cup {None}] /\ usedBy \in [Tickets -> Users]
      /\ checkIns \in [Tickets -> Nat] /\ reverts \in [Tickets -> Nat]
      /\ Scoped(pc[w], req[w])
  BY DEF TypeInv, TypeOK, ScopeInv
<1>1. pc[w] \in TicketSteps => Target(w) \in req[w].tickets
  BY DEF TypeInv, RequestOK, Fits, Target
<1>2. CASE Begin(w) \/ Abandon(w)
  BY <1>2
  DEF Begin, Abandon, LoadToOccupy, LoadToRelease, LoadToAppoint, LoadToCheckIn,
      LoadToRevert, LoadToRevoke, LoadToOccupyGroup, LoadToReleaseGroup,
      LoadToRevokeBundle, seatVars, checkInVars
<1>3. CASE CheckSeat(w) \/ (\E u \in Tickets : Visit(w, u)) \/ ChooseBundle(w)
           \/ CheckGroup(w) \/ FindOccupancy(w)
  BY <1>3
  DEF CheckSeat, Visit, ChooseBundle, CheckGroup, FindOccupancy, seatVars, checkInVars
<1>4. CASE OccupySeat(w) \/ ReleaseSeat(w) \/ AppointUser(w) \/ CheckIn(w)
           \/ RevertCheckIn(w)
  <2>1. Target(w) \in req[w].tickets
    BY <1>1, <1>4
    DEF OccupySeat, ReleaseSeat, AppointUser, CheckIn, RevertCheckIn, TicketSteps
  <2>2. t # Target(w)
    BY <2>1
  <2> HIDE DEF Target
  <2> QED
    BY <1>0, <1>4, <2>2
    DEF OccupySeat, ReleaseSeat, AppointUser, CheckIn, RevertCheckIn, seatVars,
        checkInVars
<1>5. CASE ReleaseVisited(w)
  BY <1>0, <1>5 DEF ReleaseVisited, Scoped, checkInVars
<1>6. CASE MarkRevoked(w)
  BY <1>0, <1>6 DEF MarkRevoked, seatVars, checkInVars
<1>7. CASE OccupyGroup(w)
  BY <1>0, <1>7 DEF OccupyGroup, Scoped, seatVars, checkInVars
<1>8. CASE ReleaseGroup(w)
  BY <1>0, <1>8 DEF ReleaseGroup, Scoped, Unseated, checkInVars
<1> QED
  BY <1>2, <1>3, <1>4, <1>5, <1>6, <1>7, <1>8 DEF WorkerStep, Continue

-----------------------------------------------------------------------------
(* What the worker that takes a step knows *)

\* Worker w's request stays within its scope, and what it knows is so.
Informed(w) ==
  /\ Scoped(pc'[w], req'[w])
  /\ \A t \in req'[w].tickets \ contended : Known(pc[w], req[w], t)'

(* A request that is over is about nothing. *)
LEMMA FinishInformed ==
  ASSUME TypeInv, NEW w \in Workers, Finish(w)
  PROVE  Informed(w)
<1>1. pc'[w] = "idle" /\ req'[w] = NoRequest
  BY DEF TypeInv, TypeOK, Finish, Proceed
<1>2. req'[w].tickets = {}
  BY <1>1 DEF NoRequest
<1> QED
  BY <1>1, <1>2 DEF Informed, Scoped

(* A request knows what it loads. *)
LEMMA BeginInformed ==
  ASSUME TypeInv, SeatInv, NEW w \in Workers, Begin(w)
  PROVE  Informed(w)
<1>0. pc \in [Workers -> Steps] /\ req \in [Workers -> Request]
      /\ occupancy \in [Groups -> Occupancy \cup {None}]
      /\ seatOf \in [Tickets -> Seats \cup {None}]
  BY DEF TypeInv, TypeOK
<1>1. UNCHANGED <<revoked, seatOf, occupancy, checkedIn>>
  BY DEF Begin, LoadToOccupy, LoadToRelease, LoadToAppoint, LoadToCheckIn,
     LoadToRevert, LoadToRevoke, LoadToOccupyGroup, LoadToReleaseGroup,
     LoadToRevokeBundle, seatVars, checkInVars
<1>2. ASSUME NEW step, NEW r, Start(w, step, r)
      PROVE  pc'[w] = step /\ req'[w] = r
  BY <1>0, <1>2 DEF Start, Proceed
<1>3. ASSUME NEW t \in Tickets, NEW s \in Seats, LoadToOccupy(w, t, s)
      PROVE  Informed(w)
  <2>1. /\ pc'[w] = "check_seat" /\ req'[w] = [Loaded({t}) EXCEPT !.seat = s]
        /\ t \notin revoked
    BY <1>2, <1>3 DEF LoadToOccupy
  <2>2. req'[w].tickets = {t}
    BY <2>1 DEF Loaded, About, NoRequest
  <2> QED
    BY <1>1, <2>1, <2>2 DEF Informed, Scoped, Known
<1>4. ASSUME NEW t \in Tickets, LoadToRelease(w, t)
      PROVE  Informed(w)
  BY <1>2, <1>4 DEF LoadToRelease, Informed, Scoped, Known, ValidSteps
<1>5. ASSUME NEW t \in Tickets, NEW u \in Users, LoadToAppoint(w, t, u)
      PROVE  Informed(w)
  <2>1. /\ pc'[w] = "appoint_user" /\ req'[w] = [About({t}) EXCEPT !.user = u]
        /\ t \notin revoked \cup checkedIn
    BY <1>2, <1>5 DEF LoadToAppoint, MayAppoint
  <2>2. req'[w].tickets = {t}
    BY <2>1 DEF About, NoRequest
  <2> QED
    BY <1>1, <2>1, <2>2 DEF Informed, Scoped, Known
<1>6. ASSUME NEW t \in Tickets, LoadToCheckIn(w, t) \/ LoadToRevert(w, t)
      PROVE  Informed(w)
  <2>1. /\ req'[w] = About({t})
        /\ \/ pc'[w] = "check_in" /\ t \notin revoked \cup checkedIn
           \/ pc'[w] = "revert_check_in" /\ t \in checkedIn
    BY <1>2, <1>6 DEF LoadToCheckIn, LoadToRevert, MayCheckIn
  <2>2. req'[w].tickets = {t}
    BY <2>1 DEF About, NoRequest
  <2> QED
    BY <1>1, <2>1, <2>2 DEF Informed, Scoped, Known, ValidSteps
<1>7. ASSUME NEW T \in SUBSET Single, LoadToRevoke(w, T)
      PROVE  Informed(w)
  <2>1. pc'[w] = "visit" /\ req'[w] = [Loaded(T) EXCEPT !.todo = T]
    BY <1>2, <1>7 DEF LoadToRevoke
  <2>2. /\ req'[w].tickets = T /\ req'[w].todo = T
        /\ \A t \in T : req'[w].seen[t] = seatOf[t]
    BY <1>0, <2>1 DEF Loaded, About, NoRequest, Single, TicketsOf
  <2> QED
    BY <1>1, <2>1, <2>2 DEF Informed, Scoped, Known, VisitKnown, ValidSteps
<1>8. ASSUME NEW g \in Groups, LoadToOccupyGroup(w, g) \/ LoadToReleaseGroup(w, g)
      PROVE  Informed(w)
  <2>1. /\ req'[w] = [NoRequest EXCEPT !.group = g]
        /\ pc'[w] \in {"choose_bundle", "find_occupancy"}
    BY <1>2, <1>8 DEF LoadToOccupyGroup, LoadToReleaseGroup
  <2>2. req'[w].tickets = {} /\ req'[w].revoking = FALSE
    BY <2>1 DEF NoRequest
  <2> QED
    BY <2>1, <2>2 DEF Informed, Scoped
<1>9. ASSUME NEW b \in Bundles, LoadToRevokeBundle(w, b)
      PROVE  Informed(w)
  <2> DEFINE r == [About(TicketsOf(b)) EXCEPT !.bundle = b, !.revoking = TRUE]
             groups == {g \in Groups : occupancy[g] # None /\ occupancy[g].bundle = b}
  <2>1. CASE groups = {} /\ Start(w, "mark_revoked", r)
    <3>1. pc'[w] = "mark_revoked" /\ req'[w] = r
      BY <1>2, <2>1
    <3>2. req'[w].tickets = TicketsOf(b)
      BY <3>1 DEF About, NoRequest
    <3>3. ASSUME NEW t \in TicketsOf(b), seatOf[t] # None
          PROVE  FALSE
      <4>1. t \in Tickets /\ BundleOf[t] = b /\ t \notin Single /\ seatOf[t] \in Seats
        BY <1>0, <3>3, TicketingAssumption DEF TicketsOf, Single
      <4>2. GroupOf[seatOf[t]] # None
        BY <3>3, <4>1 DEF SeatInv, SeatsKeptApart
      <4>3. GroupOf[seatOf[t]] \in Groups
        BY <4>1, <4>2, TicketingAssumption
      <4> QED
        BY <2>1, <3>3, <4>1, <4>2, <4>3 DEF SeatInv, GroupSeatsAccounted
    <3> QED
      BY <1>1, <3>1, <3>2, <3>3 DEF Informed, Scoped, Known, ValidSteps
  <2>2. ASSUME NEW g \in groups, Start(w, "find_occupancy", [r EXCEPT !.group = g])
        PROVE  Informed(w)
    <3>1. pc'[w] = "find_occupancy" /\ req'[w] = [r EXCEPT !.group = g]
      BY <1>2, <2>2
    <3>2. /\ req'[w].tickets = TicketsOf(b) /\ req'[w].bundle = b
          /\ req'[w].group = g
      BY <3>1 DEF About, NoRequest
    <3> QED
      BY <1>1, <2>2, <3>1, <3>2 DEF Informed, Scoped, Known, FindingKnown, ValidSteps
  <2> QED
    BY <1>9, <2>1, <2>2 DEF LoadToRevokeBundle
<1> QED
  BY <1>3, <1>4, <1>5, <1>6, <1>7, <1>8, <1>9 DEF Begin

(* The steps of a request keep what it knows, or end it. *)
LEMMA ContinueInformed ==
  ASSUME TypeInv, ScopeInv, KnownInv, NEW w \in Workers, Continue(w)
  PROVE  Informed(w)
<1>0. /\ pc \in [Workers -> Steps] /\ req \in [Workers -> Request]
      /\ req[w] \in Request /\ req[w].tickets \subseteq Tickets
      /\ occupancy \in [Groups -> Occupancy \cup {None}]
      /\ seatOf \in [Tickets -> Seats \cup {None}]
      /\ Scoped(pc[w], req[w])
      /\ \A t \in req[w].tickets \ contended : Known(pc[w], req[w], t)
  BY DEF TypeInv, TypeOK, ScopeInv, KnownInv, Request
<1>1. CASE Finish(w)
  BY <1>1, FinishInformed
<1>2. CASE CheckSeat(w) /\ ~Finish(w)
  <2>1. /\ pc[w] = "check_seat" /\ pc'[w] = "occupy_seat" /\ req'[w] = req[w]
        /\ revoked' = revoked
    BY <1>0, <1>2 DEF CheckSeat, Proceed
  <2> QED
    BY <1>0, <2>1 DEF Informed, Scoped, Known, ValidSteps
<1>3. ASSUME NEW u \in Tickets, Visit(w, u), ~Finish(w)
      PROVE  Informed(w)
  <2>0. pc[w] = "visit" /\ UNCHANGED <<revoked, seatOf>>
    BY <1>3 DEF Visit, seatVars
  <2>1. CASE SeatSeen(w, u) = None
    <3>1. /\ req'[w] = [req[w] EXCEPT !.todo = req[w].todo \ {u}]
          /\ pc'[w] = IF req[w].todo \ {u} = {} THEN "mark_revoked" ELSE "visit"
      BY <1>0, <1>3, <2>1 DEF Visit, Proceed, TodoLeft
    <3>2. /\ req'[w].tickets = req[w].tickets /\ req'[w].todo = req[w].todo \ {u}
          /\ req'[w].expired = req[w].expired /\ req'[w].seen = req[w].seen
      BY <1>0, <3>1 DEF Request
    <3>3. ASSUME NEW t \in req[w].tickets \ contended
          PROVE  /\ ~req[w].expired => req[w].seen[t] = seatOf[t]
                 /\ t \notin req[w].todo \ {u} => seatOf[t] = None
      <4>1. VisitKnown(req[w], t)
        BY <1>0, <2>0 DEF Known
      <4> QED
        BY <2>1, <4>1 DEF VisitKnown, SeatSeen
    <3> QED
      BY <1>0, <2>0, <3>1, <3>2, <3>3
      DEF Informed, Scoped, Known, VisitKnown, ValidSteps
  <2>2. CASE SeatSeen(w, u) # None
    <3>1. /\ req'[w] = [req[w] EXCEPT !.current = u] /\ pc'[w] = "release_visited"
          /\ u \in req[w].todo
      BY <1>0, <1>3, <2>2 DEF Visit, Proceed
    <3>2. /\ req'[w].tickets = req[w].tickets /\ req'[w].todo = req[w].todo
          /\ req'[w].expired = req[w].expired /\ req'[w].seen = req[w].seen
          /\ req'[w].current = u
      BY <1>0, <3>1 DEF Request
    <3> QED
      BY <1>0, <2>0, <3>1, <3>2 DEF Informed, Scoped, Known, VisitKnown, ValidSteps
  <2> QED
    BY <2>1, <2>2
<1>4. CASE ReleaseVisited(w)
  <2> DEFINE u == req[w].current
  <2>1. /\ pc[w] = "release_visited" /\ revoked' = revoked
        /\ seatOf' = [seatOf EXCEPT ![u] = None]
        /\ req'[w] = [req[w] EXCEPT !.todo = req[w].todo \ {u}, !.current = None,
                                    !.expired = TRUE]
        /\ pc'[w] = IF req[w].todo \ {u} = {} THEN "mark_revoked" ELSE "visit"
    BY <1>0, <1>4 DEF ReleaseVisited, Proceed, TodoLeft
  <2>2. /\ req'[w].tickets = req[w].tickets /\ req'[w].todo = req[w].todo \ {u}
        /\ req'[w].expired = TRUE
    BY <1>0, <2>1 DEF Request
  <2>3. ASSUME NEW t \in req[w].tickets \ contended, t \notin req[w].todo \ {u}
        PROVE  seatOf'[t] = None
    <3>1. VisitKnown(req[w], t)
      BY <1>0, <2>1 DEF Known
    <3> QED
      BY <1>0, <2>1, <2>3, <3>1 DEF VisitKnown
  <2> QED
    BY <1>0, <2>1, <2>2, <2>3 DEF Informed, Scoped, Known, VisitKnown, ValidSteps
<1>5. CASE ChooseBundle(w) /\ ~Finish(w)
  <2>1. PICK b \in Bundles :
          /\ TicketsOf(b) \cap revoked = {}
          /\ pc'[w] = "check_group"
          /\ req'[w] = [About(TicketsOf(b)) EXCEPT !.bundle = b, !.group = req[w].group]
    BY <1>0, <1>5 DEF ChooseBundle, Proceed, BundleMayOccupy
  <2>2. req'[w].tickets = TicketsOf(b) /\ req'[w].bundle = b
    BY <2>1 DEF About, NoRequest
  <2>3. revoked' = revoked
    BY <1>5 DEF ChooseBundle
  <2> QED
    BY <2>1, <2>2, <2>3 DEF Informed, Scoped, Known
<1>6. CASE CheckGroup(w) /\ ~Finish(w)
  <2>1. /\ pc[w] = "check_group" /\ pc'[w] = "occupy_group" /\ req'[w] = req[w]
        /\ revoked' = revoked
    BY <1>0, <1>6 DEF CheckGroup, Proceed
  <2> QED
    BY <1>0, <2>1 DEF Informed, Scoped, Known, ValidSteps
<1>7. CASE FindOccupancy(w) /\ ~Finish(w)
  <2> DEFINE o == occupancy[req[w].group]
  <2>1. /\ pc[w] = "find_occupancy" /\ pc'[w] = "release_group" /\ occupancy' = occupancy
        /\ req'[w] = [req[w] EXCEPT !.occupied = o, !.tickets = @ \cup TicketsOf(o.bundle)]
    BY <1>0, <1>7 DEF FindOccupancy, Proceed, seatVars
  <2>2. /\ req'[w].tickets = req[w].tickets \cup TicketsOf(o.bundle)
        /\ req'[w].occupied = o /\ req'[w].bundle = req[w].bundle
        /\ req'[w].group = req[w].group /\ req'[w].revoking = req[w].revoking
    BY <1>0, <2>1 DEF Request
  <2>3. ASSUME NEW t \in req'[w].tickets \ contended, req[w].revoking,
               BundleOf[t] = req[w].bundle
        PROVE  o.bundle = req[w].bundle
    <3>1. t \in req[w].tickets
      BY <1>0, <2>1, <2>2, <2>3 DEF Scoped, TicketsOf
    <3> QED
      BY <1>0, <2>1, <2>3, <3>1 DEF Known, FindingKnown
  <2>4. Scoped(pc'[w], req'[w])
    BY <1>0, <2>1, <2>2 DEF Scoped
  <2>5. ASSUME NEW t \in req'[w].tickets \ contended
        PROVE  Known(pc[w], req[w], t)'
    BY <2>1, <2>2, <2>3, <2>5 DEF Known, ReleaseKnown, ValidSteps
  <2> QED
    BY <2>4, <2>5 DEF Informed
<1>8. CASE ReleaseGroup(w) /\ ~Finish(w)
  <2> DEFINE o == req[w].occupied
  <2>1. /\ pc[w] = "release_group" /\ pc'[w] = "mark_revoked" /\ req[w].revoking
        /\ req'[w] = [req[w] EXCEPT !.tickets = TicketsOf(req[w].bundle)]
        /\ \A t \in Tickets : seatOf'[t] = IF BundleOf[t] = o.bundle THEN None ELSE seatOf[t]
    BY <1>0, <1>8 DEF ReleaseGroup, Proceed, Unseated, TicketsOf
  <2>2. req'[w].tickets = TicketsOf(req[w].bundle)
    BY <1>0, <2>1 DEF Request
  <2>3. ASSUME NEW t \in TicketsOf(req[w].bundle) \ contended
        PROVE  seatOf'[t] = None
    <3>1. t \in req[w].tickets /\ t \in Tickets /\ BundleOf[t] = req[w].bundle
      BY <1>0, <2>1, <2>3 DEF Scoped, TicketsOf
    <3>2. ReleaseKnown(req[w], t)
      BY <1>0, <2>1, <2>3, <3>1 DEF Known
    <3> QED
      BY <2>1, <3>1, <3>2 DEF ReleaseKnown
  <2> QED
    BY <2>1, <2>2, <2>3 DEF Informed, Scoped, Known, ValidSteps
<1>9. CASE OccupySeat(w) \/ ReleaseSeat(w) \/ AppointUser(w) \/ CheckIn(w)
           \/ RevertCheckIn(w) \/ MarkRevoked(w) \/ OccupyGroup(w)
  BY <1>1, <1>9
  DEF OccupySeat, ReleaseSeat, AppointUser, CheckIn, RevertCheckIn, MarkRevoked,
      OccupyGroup
<1> QED
  BY <1>1, <1>2, <1>3, <1>4, <1>5, <1>6, <1>7, <1>8, <1>9 DEF Continue

-----------------------------------------------------------------------------
(* The invariant is inductive *)

(* A row of an occupancy goes only with a request about the bundle's tickets,
   and comes only where there was none. *)
LEMMA OccupancyChange ==
  ASSUME TypeInv, ScopeInv, NEW w \in Workers, WorkerStep(w), NEW g \in Groups
  PROVE  \/ occupancy'[g] = occupancy[g]
         \/ OccupyGroup(w) /\ occupancy[g] = None /\ g = req[w].group
         \/ /\ ReleaseGroup(w) /\ occupancy'[g] = None
            /\ occupancy[g] = req[w].occupied
            /\ TicketsOf(occupancy[g].bundle) \subseteq req[w].tickets
<1>0. occupancy \in [Groups -> Occupancy \cup {None}] /\ Scoped(pc[w], req[w])
  BY DEF TypeInv, TypeOK, ScopeInv
<1>1. CASE occupancy' # occupancy
  <2>1. OccupyGroup(w) \/ ReleaseGroup(w)
    BY <1>1
    DEF WorkerStep, Begin, Abandon, Continue, LoadToOccupy, LoadToRelease,
        LoadToAppoint, LoadToCheckIn, LoadToRevert, LoadToRevoke, LoadToOccupyGroup,
        LoadToReleaseGroup, LoadToRevokeBundle, CheckSeat, OccupySeat, ReleaseSeat,
        AppointUser, CheckIn, RevertCheckIn, Visit, ReleaseVisited, MarkRevoked,
        ChooseBundle, CheckGroup, FindOccupancy, seatVars
  <2>2. CASE OccupyGroup(w)
    BY <1>0, <1>1, <2>2 DEF OccupyGroup, OccupancyConflicts, seatVars
  <2>3. CASE ReleaseGroup(w)
    BY <1>0, <2>3 DEF ReleaseGroup, WithoutRow, Scoped
  <2> QED
    BY <2>1, <2>2, <2>3
<1> QED
  BY <1>1

(* What another request knows of a ticket no two requests are about stays so. *)
LEMMA OthersStayInformed ==
  ASSUME LoadInv, NEW w \in Workers, WorkerStep(w), NEW v \in Workers \ {w},
         NEW t \in req[v].tickets \ contended
  PROVE  Known(pc[v], req[v], t)'
<1>0. /\ TypeInv /\ ScopeInv /\ t \in Tickets
      /\ Scoped(pc[v], req[v]) /\ Known(pc[v], req[v], t) /\ Fits(pc[v], req[v])
      /\ occupancy \in [Groups -> Occupancy \cup {None}]
  BY DEF LoadInv, TypeInv, TypeOK, RequestOK, Request, ScopeInv, KnownInv
<1>1. pc'[v] = pc[v] /\ req'[v] = req[v]
  BY <1>0, OthersKeepRequests
<1>2. t \notin req[w].tickets
  BY DEF LoadInv, OverlapsKnown
<1>3. /\ seatOf'[t] = seatOf[t]
      /\ t \in revoked' <=> t \in revoked
      /\ t \in checkedIn' <=> t \in checkedIn
  BY <1>0, <1>2, WritesAreScoped
<1>4. ASSUME NEW g \in Groups, occupancy[g] # None, BundleOf[t] = occupancy[g].bundle
      PROVE  occupancy'[g] = occupancy[g]
  BY <1>0, <1>2, <1>4, OccupancyChange DEF TicketsOf
<1>5. CASE pc[v] = "find_occupancy"
  <2>1. req[v].group \in Groups
    BY <1>0, <1>5 DEF Fits, GroupSteps
  <2>2. FindingKnown(req[v], t)'
    BY <1>0, <1>1, <1>4, <1>5, <2>1 DEF Known, FindingKnown
  <2> QED
    BY <1>1, <1>5, <2>2 DEF Known, ValidSteps
<1>6. CASE pc[v] = "release_group"
  <2>1. req[v].group \in Groups /\ req[v].occupied \in Occupancy
    BY <1>0, <1>6 DEF Fits, GroupSteps
  <2>2. req[v].occupied # None
    BY <2>1, TicketingAssumption DEF Occupancy
  <2>3. ReleaseKnown(req[v], t)'
    BY <1>0, <1>1, <1>4, <1>6, <2>1, <2>2 DEF Known, ReleaseKnown
  <2> QED
    BY <1>1, <1>6, <2>3 DEF Known, ValidSteps
<1>7. CASE pc[v] \notin {"find_occupancy", "release_group"}
  BY <1>0, <1>1, <1>3, <1>7 DEF Known, VisitKnown
<1> QED
  BY <1>5, <1>6, <1>7

(* Every step keeps what requests know. *)
LEMMA LoadNext == LoadInv /\ [HistoryNext]_hvars => LoadInv'
<1> SUFFICES ASSUME LoadInv, [HistoryNext]_hvars PROVE LoadInv'
  OBVIOUS
<1>1. TypeInv' /\ SeatInv'
  BY NextType, NextSeats DEF LoadInv, HistoryNext, hvars
<1>2. CASE UNCHANGED hvars
  <2>1. /\ pc' = pc /\ req' = req /\ contended' = contended /\ revoked' = revoked
        /\ seatOf' = seatOf /\ occupancy' = occupancy /\ checkedIn' = checkedIn
    BY <1>2 DEF hvars, vars, seatVars, checkInVars
  <2>2. ScopeInv' /\ OverlapsKnown'
    BY <2>1 DEF LoadInv, ScopeInv, OverlapsKnown
  <2>3. KnownInv'
    BY <2>1 DEF LoadInv, KnownInv, Known, VisitKnown, FindingKnown, ReleaseKnown
  <2> QED
    BY <1>1, <2>2, <2>3 DEF LoadInv
<1>3. CASE HistoryNext
  <2>1. PICK w \in Workers : WorkerStep(w)
    BY <1>3 DEF HistoryNext, Next, WorkerStep
  <2>2. Informed(w)
    <3>1. CASE Begin(w)
      BY <3>1, BeginInformed DEF LoadInv
    <3>2. CASE Continue(w)
      BY <3>2, ContinueInformed DEF LoadInv
    <3>3. CASE Abandon(w)
      BY <3>3, FinishInformed DEF LoadInv, Abandon
    <3> QED
      BY <2>1, <3>1, <3>2, <3>3 DEF WorkerStep
  <2>3. \A v \in Workers \ {w} : pc'[v] = pc[v] /\ req'[v] = req[v]
    BY <2>1, OthersKeepRequests DEF LoadInv
  <2>4. ScopeInv'
    BY <2>2, <2>3 DEF LoadInv, ScopeInv, Informed, Scoped
  <2>5. OverlapsKnown'
    <3> SUFFICES ASSUME NEW u \in Workers, NEW v \in Workers, u # v,
                        NEW t \in req'[u].tickets \cap req'[v].tickets
                 PROVE  t \in contended'
      BY DEF OverlapsKnown
    <3>1. t \in Tickets
      BY <1>1 DEF TypeInv, TypeOK, Request
    <3> QED
      BY <1>3, <3>1 DEF HistoryNext, Observe
  <2>6. contended \subseteq contended'
    BY <1>3 DEF HistoryNext, Observe
  <2>7. KnownInv'
    <3> SUFFICES ASSUME NEW v \in Workers, NEW t \in req'[v].tickets \ contended'
                 PROVE  Known(pc[v], req[v], t)'
      BY DEF KnownInv
    <3>1. CASE v = w
      BY <2>2, <2>6, <3>1 DEF Informed
    <3>2. CASE v # w
      BY <2>1, <2>3, <2>6, <3>2, OthersStayInformed
    <3> QED
      BY <3>1, <3>2
  <2> QED
    BY <1>1, <2>4, <2>5, <2>7 DEF LoadInv
<1> QED
  BY <1>2, <1>3

(* At the start no request is about any ticket. *)
LEMMA LoadInit == HistoryInit => LoadInv
<1> SUFFICES ASSUME HistoryInit PROVE LoadInv
  OBVIOUS
<1>1. TypeInv
  BY InitType DEF HistoryInit
<1>2. SeatInv
  BY DEF HistoryInit, Init, NoSeats, SeatInv, OneTicketPerSeat, SeatsKeptApart,
     GroupSeatsAccounted
<1>3. \A w \in Workers : pc[w] = "idle" /\ req[w].tickets = {}
  BY DEF HistoryInit, Init, NoRequest
<1> QED
  BY <1>1, <1>2, <1>3 DEF LoadInv, ScopeInv, Scoped, OverlapsKnown, KnownInv

-----------------------------------------------------------------------------
(* What follows for single tickets *)

(* Each piece of data of a ticket is written at few steps. *)
LEMMA TicketChange ==
  ASSUME TypeInv, NEW w \in Workers, WorkerStep(w), NEW t \in Tickets
  PROVE  /\ seatOf'[t] \notin {seatOf[t], None} => pc[w] \in {"occupy_seat", "occupy_group"}
         /\ usedBy'[t] # usedBy[t] => pc[w] = "appoint_user"
         /\ \/ /\ checkIns'[t] = checkIns[t] /\ reverts'[t] = reverts[t]
               /\ t \in checkedIn' <=> t \in checkedIn
            \/ /\ pc[w] = "check_in" /\ reverts'[t] = reverts[t]
               /\ checkIns'[t] = checkIns[t] + 1 /\ t \in checkedIn'
            \/ /\ pc[w] = "revert_check_in" /\ checkIns'[t] = checkIns[t]
               /\ reverts'[t] = reverts[t] + 1 /\ t \notin checkedIn'
         /\ t \in revoked => t \in revoked'
         /\ t \in revoked' \ revoked => pc[w] = "mark_revoked" /\ seatOf'[t] = seatOf[t]
<1>0. /\ seatOf \in [Tickets -> Seats \cup {None}] /\ usedBy \in [Tickets -> Users]
      /\ checkIns \in [Tickets -> Nat] /\ reverts \in [Tickets -> Nat]
  BY DEF TypeInv, TypeOK
<1>1. CASE Begin(w) \/ Abandon(w)
  BY <1>1
  DEF Begin, Abandon, LoadToOccupy, LoadToRelease, LoadToAppoint, LoadToCheckIn,
      LoadToRevert, LoadToRevoke, LoadToOccupyGroup, LoadToReleaseGroup,
      LoadToRevokeBundle, seatVars, checkInVars
<1>2. CASE CheckSeat(w) \/ (\E u \in Tickets : Visit(w, u)) \/ ChooseBundle(w)
           \/ CheckGroup(w) \/ FindOccupancy(w)
  BY <1>2
  DEF CheckSeat, Visit, ChooseBundle, CheckGroup, FindOccupancy, seatVars, checkInVars
<1>3. CASE OccupySeat(w) \/ OccupyGroup(w)
  BY <1>3 DEF OccupySeat, OccupyGroup, seatVars, checkInVars
<1>4. CASE ReleaseSeat(w) \/ ReleaseVisited(w) \/ ReleaseGroup(w)
  BY <1>0, <1>4 DEF ReleaseSeat, ReleaseVisited, ReleaseGroup, Unseated, checkInVars
<1>5. CASE AppointUser(w)
  BY <1>5 DEF AppointUser, seatVars, checkInVars
<1>6. CASE CheckIn(w) \/ RevertCheckIn(w)
  BY <1>0, <1>6 DEF CheckIn, RevertCheckIn, seatVars
<1>7. CASE MarkRevoked(w)
  BY <1>7 DEF MarkRevoked, seatVars, checkInVars
<1> QED
  BY <1>1, <1>2, <1>3, <1>4, <1>5, <1>6, <1>7 DEF WorkerStep, Continue

(* So a step that changes a ticket no two requests are about knows of it what
   its request has loaded. *)
LEMMA UncontendedChange ==
  ASSUME LoadInv, NEW w \in Workers, WorkerStep(w), NEW t \in Uncontended
  PROVE  /\ seatOf'[t] \notin {seatOf[t], None} => t \notin revoked
         /\ usedBy'[t] # usedBy[t] => t \notin revoked \cup checkedIn
         /\ \/ /\ checkIns'[t] = checkIns[t] /\ reverts'[t] = reverts[t]
               /\ t \in checkedIn' <=> t \in checkedIn
            \/ /\ t \notin revoked \cup checkedIn /\ t \in checkedIn'
               /\ checkIns'[t] = checkIns[t] + 1 /\ reverts'[t] = reverts[t]
            \/ /\ t \in checkedIn /\ t \notin checkedIn'
               /\ checkIns'[t] = checkIns[t] /\ reverts'[t] = reverts[t] + 1
         /\ t \in revoked => t \in revoked'
         /\ t \in revoked' \ revoked => seatOf'[t] = None
<1>0. TypeInv /\ ScopeInv /\ t \in Tickets /\ t \notin contended
  BY DEF LoadInv, Uncontended
<1>1. CASE t \notin req[w].tickets
  BY <1>0, <1>1, WritesAreScoped
<1>2. CASE t \in req[w].tickets
  <2>1. Known(pc[w], req[w], t)
    BY <1>0, <1>2 DEF LoadInv, KnownInv
  <2>2. /\ pc[w] \in {"occupy_seat", "occupy_group", "appoint_user", "check_in"}
             => t \notin revoked
        /\ pc[w] \in {"appoint_user", "check_in"} => t \notin checkedIn
        /\ pc[w] = "revert_check_in" => t \in checkedIn
        /\ pc[w] = "mark_revoked" => seatOf[t] = None
    BY <2>1 DEF Known, ValidSteps
  <2> QED
    BY <1>0, <2>2, TicketChange
<1> QED
  BY <1>1, <1>2

TicketInv == LoadInv /\ CheckInsAccounted /\ RevokedHaveNoSeat

(* Every step keeps what is said of the tickets no two requests met over. *)
LEMMA TicketNext == TicketInv /\ [HistoryNext]_hvars => TicketInv'
<1> SUFFICES ASSUME TicketInv, [HistoryNext]_hvars PROVE TicketInv'
  OBVIOUS
<1>1. LoadInv'
  BY LoadNext DEF TicketInv
<1>2. CASE UNCHANGED hvars
  BY <1>1, <1>2
  DEF hvars, vars, seatVars, checkInVars, TicketInv, CheckInsAccounted,
      RevokedHaveNoSeat, Uncontended
<1>3. CASE HistoryNext
  <2>1. PICK w \in Workers : WorkerStep(w)
    BY <1>3 DEF HistoryNext, Next, WorkerStep
  <2>2. Uncontended' \subseteq Uncontended
    BY <1>3 DEF HistoryNext, Observe, Uncontended
  <2>3. ASSUME NEW t \in Uncontended'
        PROVE  checkIns'[t] = reverts'[t] + (IF t \in checkedIn' THEN 1 ELSE 0)
    <3>1. checkIns[t] \in Nat /\ reverts[t] \in Nat
      BY DEF TicketInv, LoadInv, TypeInv, TypeOK, Uncontended
    <3>2. checkIns[t] = reverts[t] + (IF t \in checkedIn THEN 1 ELSE 0)
      BY <2>2 DEF TicketInv, CheckInsAccounted
    <3> QED
      BY <2>1, <2>2, <3>1, <3>2, UncontendedChange DEF TicketInv
  <2>4. ASSUME NEW t \in Uncontended' \cap revoked'
        PROVE  seatOf'[t] = None
    BY <2>1, <2>2, UncontendedChange DEF TicketInv, RevokedHaveNoSeat
  <2> QED
    BY <1>1, <2>3, <2>4 DEF TicketInv, CheckInsAccounted, RevokedHaveNoSeat
<1> QED
  BY <1>2, <1>3

(* At the start no ticket is revoked and nobody is checked in. *)
LEMMA TicketInit == HistoryInit => TicketInv
<1> SUFFICES ASSUME HistoryInit PROVE TicketInv
  OBVIOUS
<1>1. LoadInv
  BY LoadInit
<1>2. CheckInsAccounted /\ RevokedHaveNoSeat
  BY DEF HistoryInit, Init, CheckInsAccounted, RevokedHaveNoSeat, Uncontended
<1> QED
  BY <1>1, <1>2 DEF TicketInv

\* Nobody is checked in twice with a ticket no two requests were about at once:
\* its flag, its check-in rows and its log agree, although each check-in is
\* decided on a ticket loaded before and written by a later transaction.
THEOREM CheckInsAgree == HistorySpec => []CheckInsAccounted
<1>1. TicketInv => CheckInsAccounted
  BY DEF TicketInv
<1> QED
  BY <1>1, TicketInit, TicketNext, PTL DEF HistorySpec, hvars

\* The revocation of a ticket no two requests were about at once has given its
\* seat back, whether it is revoked alone, together with others one of which
\* fails, or with its bundle.
THEOREM RevokedTicketsUnseated == HistorySpec => []RevokedHaveNoSeat
<1>1. TicketInv => RevokedHaveNoSeat
  BY DEF TicketInv
<1> QED
  BY <1>1, TicketInit, TicketNext, PTL DEF HistorySpec, hvars

\* A revoked ticket stays revoked and gets neither seat, user nor check-in.
THEOREM RevokedStaysInert == HistorySpec => RevokedIsInert
<1>1. TicketInv /\ [HistoryNext]_hvars
        => [\A t \in revoked \ contended' :
              /\ t \in revoked'
              /\ seatOf'[t] # None => seatOf'[t] = seatOf[t]
              /\ usedBy'[t] = usedBy[t]
              /\ checkIns'[t] = checkIns[t]]_vars
  <2> SUFFICES ASSUME TicketInv, HistoryNext, NEW t \in revoked \ contended'
               PROVE  /\ t \in revoked'
                      /\ seatOf'[t] # None => seatOf'[t] = seatOf[t]
                      /\ usedBy'[t] = usedBy[t]
                      /\ checkIns'[t] = checkIns[t]
    BY DEF hvars
  <2>1. PICK w \in Workers : WorkerStep(w)
    BY DEF HistoryNext, Next, WorkerStep
  <2>2. t \in Uncontended
    BY DEF HistoryNext, Observe, Uncontended, TicketInv, LoadInv, TypeInv, TypeOK
  <2>3. checkIns[t] \in Nat
    BY <2>2 DEF Uncontended, TicketInv, LoadInv, TypeInv, TypeOK
  <2> QED
    BY <2>1, <2>2, <2>3, UncontendedChange DEF TicketInv
<1> QED
  BY <1>1, TicketInit, TicketNext, PTL DEF HistorySpec, RevokedIsInert, hvars

\* Nobody else becomes the user of a ticket somebody is checked in with.
THEOREM CheckedInUserStays == HistorySpec => CheckedInUserFixed
<1>1. TicketInv /\ [HistoryNext]_hvars
        => [\A t \in checkedIn \ contended' : usedBy'[t] = usedBy[t]]_vars
  <2> SUFFICES ASSUME TicketInv, HistoryNext, NEW t \in checkedIn \ contended'
               PROVE  usedBy'[t] = usedBy[t]
    BY DEF hvars
  <2>1. PICK w \in Workers : WorkerStep(w)
    BY DEF HistoryNext, Next, WorkerStep
  <2>2. t \in Uncontended
    BY DEF HistoryNext, Observe, Uncontended, TicketInv, LoadInv, TypeInv, TypeOK
  <2> QED
    BY <2>1, <2>2, UncontendedChange DEF TicketInv
<1> QED
  BY <1>1, TicketInit, TicketNext, PTL DEF HistorySpec, CheckedInUserFixed, hvars

-----------------------------------------------------------------------------
(* What follows for bundles *)

GroupInv == LoadInv /\ OneGroupPerBundle /\ SeatedTogether

(* A bundle and a group of the same size: every seat is taken. *)
LEMMA SeatingCovers ==
  ASSUME NEW b \in Bundles, NEW g \in Groups,
         Cardinality(TicketsOf(b)) = Cardinality(SeatsOf(g))
  PROVE  {Seating(b, g)[t] : t \in TicketsOf(b)} = SeatsOf(g)
<1>1. TicketsOf(b) \subseteq Tickets /\ SeatsOf(g) \subseteq Seats
  BY DEF TicketsOf, SeatsOf
<1>2. IsFiniteSet(TicketsOf(b)) /\ IsFiniteSet(SeatsOf(g))
  BY <1>1, FS_Subset, TicketingAssumption
<1>3. ExistsBijection(TicketsOf(b), SeatsOf(g))
  BY <1>2, FS_SameCardinalityBij
<1>4. Seating(b, g) \in Bijection(TicketsOf(b), SeatsOf(g))
  BY <1>3 DEF ExistsBijection, Seating
<1>5. Seating(b, g) \in [TicketsOf(b) -> SeatsOf(g)]
      /\ \A s \in SeatsOf(g) : \E t \in TicketsOf(b) : Seating(b, g)[t] = s
  BY <1>4 DEF Bijection, Surjection
<1> QED
  BY <1>5

(* Nobody but a request about the bundle moves its tickets, and single tickets
   are moved alone. *)
LEMMA BundleSeatChange ==
  ASSUME TypeInv, ScopeInv, NEW w \in Workers, WorkerStep(w),
         NEW t \in Tickets, t \notin Single, seatOf'[t] # seatOf[t]
  PROVE  \/ OccupyGroup(w) /\ ~OccupancyConflicts(w) /\ BundleOf[t] = req[w].bundle
         \/ ReleaseGroup(w) /\ BundleOf[t] = req[w].occupied.bundle
<1>0. seatOf \in [Tickets -> Seats \cup {None}] /\ Scoped(pc[w], req[w])
  BY DEF TypeInv, TypeOK, ScopeInv
<1>1. OccupySeat(w) \/ ReleaseSeat(w) \/ ReleaseVisited(w) \/ OccupyGroup(w)
      \/ ReleaseGroup(w)
  BY DEF WorkerStep, Begin, Abandon, Continue, LoadToOccupy, LoadToRelease,
     LoadToAppoint, LoadToCheckIn, LoadToRevert, LoadToRevoke, LoadToOccupyGroup,
     LoadToReleaseGroup, LoadToRevokeBundle, CheckSeat, AppointUser, CheckIn,
     RevertCheckIn, Visit, MarkRevoked, ChooseBundle, CheckGroup, FindOccupancy,
     seatVars
<1>2. ~OccupySeat(w)
  <2>1. OccupySeat(w) => Target(w) \in Single
    BY TargetType DEF OccupySeat, TypeInv, RequestOK, Fits, TicketSteps
  <2> QED
    BY <1>0, <2>1 DEF OccupySeat
<1>3. ~ReleaseSeat(w)
  BY <1>0 DEF ReleaseSeat, MayRelease
<1>4. ~ReleaseVisited(w)
  BY <1>0 DEF ReleaseVisited, Scoped
<1>5. OccupyGroup(w) => ~OccupancyConflicts(w) /\ BundleOf[t] = req[w].bundle
  BY DEF OccupyGroup, seatVars, TicketsOf
<1>6. ReleaseGroup(w) => BundleOf[t] = req[w].occupied.bundle
  BY DEF ReleaseGroup, Unseated, TicketsOf
<1> QED
  BY <1>1, <1>2, <1>3, <1>4, <1>5, <1>6

(* Every step keeps bundles together. *)
LEMMA GroupNext == GroupInv /\ [HistoryNext]_hvars => GroupInv'
<1> SUFFICES ASSUME GroupInv, [HistoryNext]_hvars PROVE GroupInv'
  OBVIOUS
<1>0. /\ TypeInv /\ ScopeInv /\ KnownInv
      /\ occupancy \in [Groups -> Occupancy \cup {None}]
      /\ seatOf \in [Tickets -> Seats \cup {None}]
  BY DEF GroupInv, LoadInv, TypeInv, TypeOK
<1>1. LoadInv'
  BY LoadNext DEF GroupInv
<1>2. CASE UNCHANGED hvars
  <2>1. seatOf' = seatOf /\ occupancy' = occupancy /\ contended' = contended
    BY <1>2 DEF hvars, vars, seatVars
  <2> QED
    BY <1>1, <2>1 DEF GroupInv, OneGroupPerBundle, SeatedTogether
<1>3. CASE HistoryNext
  <2>1. PICK w \in Workers : WorkerStep(w)
    BY <1>3 DEF HistoryNext, Next, WorkerStep
  <2>2. contended \subseteq contended'
    BY <1>3 DEF HistoryNext, Observe
  <2> DEFINE b == req[w].bundle
             h == req[w].group
  <2>3. CASE OccupyGroup(w) /\ ~OccupancyConflicts(w)
    <3>1. b \in Bundles /\ h \in Groups
          /\ Cardinality(TicketsOf(b)) = Cardinality(SeatsOf(h))
      BY <1>0, <2>3 DEF OccupyGroup, TypeInv, RequestOK, Fits, GroupSteps
    <3>2. /\ occupancy'[h].bundle = b
          /\ \A g \in Groups \ {h} : occupancy'[g] = occupancy[g]
      BY <1>0, <2>3, <3>1 DEF OccupyGroup
    <3>3. \A g \in Groups : occupancy[g] # None => occupancy[g].bundle # b
      BY <2>3 DEF OccupancyConflicts
    <3>4. \A t \in Tickets :
            seatOf'[t] = IF t \in TicketsOf(b) THEN Seating(b, h)[t] ELSE seatOf[t]
      BY <2>3 DEF OccupyGroup
    <3>5. OneGroupPerBundle'
      BY <3>2, <3>3 DEF GroupInv, OneGroupPerBundle
    <3>6. SeatedTogether'
      <4> SUFFICES ASSUME NEW g \in Groups, occupancy'[g] # None,
                          TicketsOf(occupancy'[g].bundle) \cap contended' = {}
                   PROVE  {seatOf'[t] : t \in TicketsOf(occupancy'[g].bundle)} = SeatsOf(g)
        BY DEF SeatedTogether
      <4>1. CASE g = h
        <5>1. {seatOf'[t] : t \in TicketsOf(b)} = {Seating(b, h)[t] : t \in TicketsOf(b)}
          BY <3>4 DEF TicketsOf
        <5> QED
          BY <3>1, <3>2, <4>1, <5>1, SeatingCovers
      <4>2. CASE g # h
        <5> DEFINE c == occupancy[g].bundle
        <5>1. occupancy'[g] = occupancy[g] /\ c # b
          BY <3>2, <3>3, <4>2
        <5>2. \A t \in TicketsOf(c) : seatOf'[t] = seatOf[t]
          BY <3>4, <5>1 DEF TicketsOf
        <5>3. {seatOf'[t] : t \in TicketsOf(c)} = {seatOf[t] : t \in TicketsOf(c)}
          BY <5>2
        <5>4. TicketsOf(c) \cap contended = {}
          BY <2>2, <5>1
        <5> QED
          BY <5>1, <5>3, <5>4 DEF GroupInv, SeatedTogether
      <4> QED
        BY <4>1, <4>2
    <3> QED
      BY <1>1, <3>5, <3>6 DEF GroupInv
  <2>4. CASE ~(OccupyGroup(w) /\ ~OccupancyConflicts(w))
    <3>1. \A g \in Groups : occupancy'[g] \in {occupancy[g], None}
      <4>1. OccupyGroup(w) => occupancy' = occupancy
        BY <2>4 DEF OccupyGroup, seatVars
      <4> QED
        BY <1>0, <2>1, <4>1, OccupancyChange
    <3>2. OneGroupPerBundle'
      BY <3>1 DEF GroupInv, OneGroupPerBundle
    <3>3. SeatedTogether'
      <4> SUFFICES ASSUME NEW g \in Groups, occupancy'[g] # None,
                          TicketsOf(occupancy'[g].bundle) \cap contended' = {}
                   PROVE  {seatOf'[t] : t \in TicketsOf(occupancy'[g].bundle)} = SeatsOf(g)
        BY DEF SeatedTogether
      <4> DEFINE c == occupancy[g].bundle
      <4>1. occupancy'[g] = occupancy[g] /\ occupancy[g] # None
            /\ TicketsOf(c) \cap contended = {} /\ c \in Bundles
        BY <1>0, <2>2, <3>1 DEF Occupancy
      <4>2. ASSUME NEW t \in TicketsOf(c), seatOf'[t] # seatOf[t]
            PROVE  FALSE
        <5>1. t \in Tickets /\ t \notin Single /\ BundleOf[t] = c
          BY <4>1, TicketingAssumption DEF TicketsOf, Single
        <5>2. ReleaseGroup(w) /\ c = req[w].occupied.bundle
          BY <1>0, <2>1, <2>4, <4>2, <5>1, BundleSeatChange
        <5>3. pc[w] = "release_group" /\ t \in req[w].tickets \ contended
          BY <1>0, <4>1, <5>1, <5>2 DEF ReleaseGroup, ScopeInv, Scoped
        <5>4. occupancy[req[w].group] = req[w].occupied
          BY <1>0, <5>1, <5>2, <5>3 DEF KnownInv, Known, ReleaseKnown
        <5>5. req[w].group \in Groups /\ req[w].occupied \in Occupancy
          BY <1>0, <5>3 DEF TypeInv, RequestOK, Fits, GroupSteps
        <5>6. req[w].group = g
          BY <4>1, <5>2, <5>4, <5>5, TicketingAssumption
          DEF GroupInv, OneGroupPerBundle, Occupancy
        <5>7. occupancy'[g] = None
          BY <1>0, <5>2, <5>4, <5>6 DEF ReleaseGroup, WithoutRow
        <5> QED
          BY <5>7
      <4>3. {seatOf'[t] : t \in TicketsOf(c)} = {seatOf[t] : t \in TicketsOf(c)}
        BY <4>2
      <4> QED
        BY <4>1, <4>3 DEF GroupInv, SeatedTogether
    <3> QED
      BY <1>1, <3>2, <3>3 DEF GroupInv
  <2> QED
    BY <2>3, <2>4
<1> QED
  BY <1>2, <1>3

\* A bundle none of whose tickets was contended sits together in one group or
\* not at all, although the rows of its tickets and of the occupancy are
\* written by a request that has read them before, or that dies.
THEOREM BundlesSitTogether == HistorySpec => []GroupSeatedWhole
<1>1. HistoryInit => GroupInv
  <2> SUFFICES ASSUME HistoryInit PROVE GroupInv
    OBVIOUS
  <2>1. \A g \in Groups : occupancy[g] = None
    BY DEF HistoryInit, Init
  <2> QED
    BY <2>1, LoadInit DEF GroupInv, OneGroupPerBundle, SeatedTogether
<1>2. GroupInv => GroupSeatedWhole
  <2> SUFFICES ASSUME GroupInv, NEW b \in Bundles, TicketsOf(b) \cap contended = {}
               PROVE  LET groups == {g \in Groups : occupancy[g] # None
                                                    /\ occupancy[g].bundle = b}
                      IN  {seatOf[t] : t \in TicketsOf(b)} =
                            IF groups = {} THEN {None} ELSE UNION {SeatsOf(g) : g \in groups}
    BY DEF GroupSeatedWhole
  <2> DEFINE groups == {g \in Groups : occupancy[g] # None /\ occupancy[g].bundle = b}
  <2>1. CASE groups = {}
    <3>1. ASSUME NEW t \in TicketsOf(b) PROVE seatOf[t] = None
      <4>1. t \in Tickets /\ BundleOf[t] = b /\ t \notin Single
            /\ seatOf[t] \in Seats \cup {None}
        BY <3>1, TicketingAssumption
        DEF TicketsOf, Single, GroupInv, LoadInv, TypeInv, TypeOK
      <4>2. CASE seatOf[t] # None
        <5>1. GroupOf[seatOf[t]] \in Groups
          BY <4>1, <4>2, TicketingAssumption DEF GroupInv, LoadInv, SeatInv, SeatsKeptApart
        <5> QED
          BY <2>1, <4>1, <4>2, <5>1, TicketingAssumption
          DEF GroupInv, LoadInv, SeatInv, GroupSeatsAccounted
      <4> QED
        BY <4>2
    <3>2. \E t \in TicketsOf(b) : TRUE
      BY TicketingAssumption DEF TicketsOf
    <3> QED
      BY <2>1, <3>1, <3>2
  <2>2. ASSUME NEW g \in groups
        PROVE  {seatOf[t] : t \in TicketsOf(b)} = UNION {SeatsOf(x) : x \in groups}
    <3>1. groups = {g}
      BY DEF GroupInv, OneGroupPerBundle
    <3>2. {seatOf[t] : t \in TicketsOf(b)} = SeatsOf(g)
      BY DEF GroupInv, SeatedTogether
    <3> QED
      BY <3>1, <3>2
  <2> QED
    BY <2>1, <2>2
<1> QED
  BY <1>1, <1>2, GroupNext, PTL DEF HistorySpec, hvars

=============================================================================
